---- MODULE Spec2Model ----
(***************************************************************************)
(* The CVSS converter page (cvss-converter/script.js): its two globals,    *)
(* the DOM fields its handlers write, and the handlers themselves; the     *)
(* live fact generator page with its worker, the cached fact widget and    *)
(* the fact generation script of weird-science-fact.                       *)
(*                                                                         *)
(* Strings are sequences of one-character strings, so that split, trim,    *)
(* startsWith and the template literals of generateVector are computed     *)
(* character by character.  JavaScript numbers are decimal fixed-point     *)
(* values with an explicit NaN (see "Numbers" below).                      *)
(***************************************************************************)
EXTENDS Integers, Sequences, FiniteSets, TLC

VARIABLES
    currentVersion,     \* let currentVersion
    currentMetrics,     \* let currentMetrics: metric key -> value
    vectorString,       \* #vector-string .value (the input field)
    currentVector,      \* #current-vector .textContent
    scoreValue,         \* the score updateUI computed last
    scoreDisplay,       \* #score-display .textContent
    severityDisplay,    \* #severity-display .textContent
    convertedMetrics,   \* the convertedMetrics of the last convertVector
    convertedVector,    \* #converted-vector .textContent
    conversionWarning,  \* the notes rendered into #conversion-warning
    conversionResult,   \* #conversion-result .style.display = 'block'
    selected,           \* the .metric-btn elements carrying class 'selected'
    entered,            \* the field value the last parseVector read
    alertMsg,           \* the alert() raised by the last handler, if any
    threw,              \* the last handler ended in an uncaught TypeError
    lastOp,             \* the handler that ran last
    nOps,               \* number of handlers run since page load
    \* weird-science-fact/script.js, one copy per open tab, and its worker
    now,                \* Date.now()
    localStorage,       \* the origin's localStorage, shared by every tab
    state,              \* let state, per tab
    elements,           \* the DOM fields the handlers write, per tab; errorMessage
                        \* is the text the user sees, empty while errorContainer is hidden
    awaiting,           \* the response handleGenerate awaits, per tab
    rateLimitStore,     \* the worker's rateLimitStore entry of the client IP
    admitted,           \* the Date.now() of every recordRequest() so far
    \* the cached fact widget
    data,               \* state.data.facts, as fact ids
    history,            \* state.history
    currentFact,        \* state.currentFact
    factContainer,      \* the fact #fact-container shows
    widgetError,        \* #error-message of the widget
    pendingFacts,       \* facts whose simulated progress is running
    \* scripts/generate-facts.js
    pc,                 \* the callClaude caller that is running
    attempt,            \* callClaude's loop variable
    callLog,            \* attempts and sleeps of the running callClaude
    entryCalls,         \* callers that called callClaude in this generateFactEntry
    verification,       \* what verifyFact returned last, none while it is called
    facts,              \* main's facts
    attempts,           \* main's attempts
    consecutiveFailures,\* main's consecutiveFailures
    outputFile,         \* data/facts.json
    exitCode            \* process exit code, once the script ended

vars == <<currentVersion, currentMetrics, vectorString, currentVector, scoreValue,
          scoreDisplay, severityDisplay, convertedMetrics, convertedVector,
          conversionWarning, conversionResult, selected, entered, alertMsg, threw,
          lastOp, nOps, now, localStorage, state, elements, awaiting, rateLimitStore,
          admitted, data, history, currentFact, factContainer, widgetError,
          pendingFacts, pc, attempt, callLog, entryCalls, verification, facts,
          attempts, consecutiveFailures, outputFile, exitCode>>

\* the converter page
pageVars == <<currentVersion, currentMetrics, vectorString, currentVector, scoreValue,
              scoreDisplay, severityDisplay, convertedMetrics, convertedVector,
              conversionWarning, conversionResult, selected, entered, alertMsg,
              threw, lastOp, nOps>>

\* the live fact generator and its worker
limiterVars == <<now, localStorage, state, elements, awaiting, rateLimitStore,
                 admitted>>

\* the cached fact widget
widgetVars == <<data, history, currentFact, factContainer, widgetError, pendingFacts>>

\* the fact generation script
scriptVars == <<pc, attempt, callLog, entryCalls, verification, facts, attempts,
                consecutiveFailures, outputFile, exitCode>>

(***************************************************************************)
(* Bounds                                                                  *)
(***************************************************************************)
\* handlers run after page load
MaxOps == 2
\* metrics in which a typed vector differs from the default metric set
MaxVaried == 3
MaxTenths == 100
MaxJunk == 2
\* tabs of one browser that hold the live generator page
MaxTabs == 2
\* steps of TickMs milliseconds the clock makes
MaxTicks == 1
TickMs == 3600000
\* generations the client-side limiter admits in one run
MaxAdmitted == 6
\* facts in data/facts.json
MaxFacts == 3
\* length of a short history found in localStorage
MaxStored == 2
\* next-fact animations running at once
MaxPending == 2
\* CONFIG.FACT_COUNT, from the environment
FACT_COUNT == 3

(***************************************************************************)
(* Strings                                                                 *)
(***************************************************************************)
\* JavaScript's undefined: a value no string of single characters equals
Undefined == <<"undefined">>

\* String(v), as a template literal interpolates it
ToStr(v) == IF v = Undefined THEN <<"u","n","d","e","f","i","n","e","d">> ELSE v

\* a value is truthy unless it is undefined or the empty string
Truthy(v) == v # Undefined /\ v # <<>>

WhiteSpace == {" ", "\t", "\n"}

RECURSIVE trimStart(_)
trimStart(s) ==
    IF s # <<>> /\ Head(s) \in WhiteSpace THEN trimStart(Tail(s)) ELSE s

RECURSIVE trimEnd(_)
trimEnd(s) ==
    IF s # <<>> /\ s[Len(s)] \in WhiteSpace
    THEN trimEnd(SubSeq(s, 1, Len(s) - 1))
    ELSE s

trim(s) == trimEnd(trimStart(s))

startsWith(s, p) == Len(s) >= Len(p) /\ SubSeq(s, 1, Len(p)) = p

\* the pieces of s from position start on, scanning from position i
RECURSIVE splitFrom(_, _, _, _)
splitFrom(s, sep, start, i) ==
    IF i > Len(s) THEN <<SubSeq(s, start, Len(s))>>
    ELSE IF s[i] = sep
    THEN <<SubSeq(s, start, i - 1)>> \o splitFrom(s, sep, i + 1, i + 1)
    ELSE splitFrom(s, sep, start, i + 1)

\* s.split(sep): every piece between separators, empty pieces included
split(s, sep) == splitFrom(s, sep, 1, 1)

(***************************************************************************)
(* Metric sets                                                             *)
(***************************************************************************)
kAV == <<"A","V">>
kAC == <<"A","C">>
kAT == <<"A","T">>
kPR == <<"P","R">>
kUI == <<"U","I">>
kS  == <<"S">>
kC  == <<"C">>
kI  == <<"I">>
kA  == <<"A">>
kVC == <<"V","C">>
kVI == <<"V","I">>
kVA == <<"V","A">>
kSC == <<"S","C">>
kSI == <<"S","I">>
kSA == <<"S","A">>

vN == <<"N">>
vA == <<"A">>
vL == <<"L">>
vP == <<"P">>
vH == <<"H">>
vR == <<"R">>
vU == <<"U">>
vC == <<"C">>

\* obj[key]
Get(obj, key) == IF key \in DOMAIN obj THEN obj[key] ELSE Undefined

\* obj[key] = value
Put(obj, key, value) ==
    [x \in (DOMAIN obj) \cup {key} |-> IF x = key THEN value ELSE obj[x]]

EmptyObject == [x \in {} |-> Undefined]

requiredV3 == <<kAV, kAC, kPR, kUI, kS, kC, kI, kA>>
requiredV4 == <<kAV, kAC, kAT, kPR, kUI, kVC, kVI, kVA, kSC, kSI, kSA>>
required(version) == IF version = 3 THEN requiredV3 ELSE requiredV4

defaultV3 ==
    (kAV :> vN) @@ (kAC :> vL) @@ (kPR :> vN) @@ (kUI :> vN) @@ (kS :> vU) @@
    (kC :> vN) @@ (kI :> vN) @@ (kA :> vN)

defaultV4 ==
    (kAV :> vN) @@ (kAC :> vL) @@ (kAT :> vN) @@ (kPR :> vN) @@ (kUI :> vN) @@
    (kVC :> vN) @@ (kVI :> vN) @@ (kVA :> vN) @@
    (kSC :> vN) @@ (kSI :> vN) @@ (kSA :> vN)

\* one "/KEY:value" piece of the template literal
Segment(metrics, key) == <<"/">> \o key \o <<":">> \o ToStr(Get(metrics, key))

RECURSIVE Segments(_, _, _)
Segments(metrics, keys, i) ==
    IF i > Len(keys) THEN <<>>
    ELSE Segment(metrics, keys[i]) \o Segments(metrics, keys, i + 1)

prefix30 == <<"C","V","S","S",":","3",".","0">>
prefix31 == <<"C","V","S","S",":","3",".","1">>
prefix40 == <<"C","V","S","S",":","4",".","0">>

\* generateVector with the v3 tag written as CVSS:3.0
generateVectorTag30(version, metrics) ==
    IF version = 3
    THEN prefix30 \o Segments(metrics, requiredV3, 1)
    ELSE prefix40 \o Segments(metrics, requiredV4, 1)

generateVector(version, metrics) ==
    IF version = 3
    THEN prefix31 \o Segments(metrics, requiredV3, 1)
    ELSE prefix40 \o Segments(metrics, requiredV4, 1)

(***************************************************************************)
(* Numbers                                                                 *)
(*                                                                         *)
(* A JavaScript number is NaN or a signed decimal mag * 1000^(-e), where   *)
(* mag is a natural number written as limbs in 0..999, least significant   *)
(* first.  Every literal of the scoring code is a finite decimal, so +, -  *)
(* and * are exact here.  On all 2592 v3 and all 104976 v4 legal metric    *)
(* sets the IEEE-754 evaluation of the scoring code and this exact         *)
(* evaluation give the same Math.ceil(value * 10): no base score lies      *)
(* within rounding error of a multiple of 0.1 other than 0 and 10.         *)
(***************************************************************************)
RECURSIVE natOf(_)
natOf(n) == IF n = 0 THEN <<>> ELSE <<n % 1000>> \o natOf(n \div 1000)

RECURSIVE natToInt(_)
natToInt(a) == IF a = <<>> THEN 0 ELSE Head(a) + 1000 * natToInt(Tail(a))

RECURSIVE stripHigh(_)
stripHigh(a) ==
    IF a # <<>> /\ a[Len(a)] = 0 THEN stripHigh(SubSeq(a, 1, Len(a) - 1)) ELSE a

limb(a, i) == IF i <= Len(a) THEN a[i] ELSE 0

\* the limbs from position i on of a + b + carry
RECURSIVE natAddC(_, _, _, _)
natAddC(a, b, i, carry) ==
    IF i > Len(a) /\ i > Len(b)
    THEN (IF carry = 0 THEN <<>> ELSE <<carry>>)
    ELSE <<(limb(a, i) + limb(b, i) + carry) % 1000>> \o
         natAddC(a, b, i + 1, (limb(a, i) + limb(b, i) + carry) \div 1000)

natAdd(a, b) == natAddC(a, b, 1, 0)

\* the limbs from position i on of a - b - borrow, for a >= b
RECURSIVE natSubB(_, _, _, _)
natSubB(a, b, i, borrow) ==
    IF i > Len(a) THEN <<>>
    ELSE IF limb(a, i) - limb(b, i) - borrow < 0
    THEN <<limb(a, i) - limb(b, i) - borrow + 1000>> \o natSubB(a, b, i + 1, 1)
    ELSE <<limb(a, i) - limb(b, i) - borrow>> \o natSubB(a, b, i + 1, 0)

natSub(a, b) == stripHigh(natSubB(a, b, 1, 0))

RECURSIVE natCmpAt(_, _, _)
natCmpAt(a, b, i) ==
    IF i = 0 THEN 0
    ELSE IF a[i] > b[i] THEN 1
    ELSE IF a[i] < b[i] THEN -1
    ELSE natCmpAt(a, b, i - 1)

\* -1, 0 or 1 as a < b, a = b, a > b (neither has a high zero limb)
natCmp(a, b) ==
    IF Len(a) > Len(b) THEN 1
    ELSE IF Len(a) < Len(b) THEN -1
    ELSE natCmpAt(a, b, Len(a))

RECURSIVE natMulSmallC(_, _, _, _)
natMulSmallC(a, d, i, carry) ==
    IF i > Len(a) THEN natOf(carry)
    ELSE <<(a[i] * d + carry) % 1000>> \o
         natMulSmallC(a, d, i + 1, (a[i] * d + carry) \div 1000)

natMulSmall(a, d) == stripHigh(natMulSmallC(a, d, 1, 0))

\* a * 1000^n
shift(a, n) == IF a = <<>> THEN <<>> ELSE [i \in 1..n |-> 0] \o a

\* a times the limbs of b from position j on
RECURSIVE natMulAt(_, _, _)
natMulAt(a, b, j) ==
    IF j > Len(b) THEN <<>>
    ELSE natAdd(natMulSmall(a, b[j]), shift(natMulAt(a, b, j + 1), 1))

\* the shorter factor is the one taken limb by limb
natMul(a, b) ==
    natMulAt(IF Len(a) < Len(b) THEN b ELSE a, IF Len(a) < Len(b) THEN a ELSE b, 1)

NaN == [nan |-> TRUE, neg |-> FALSE, mag |-> <<>>, e |-> 0]

\* drops the zero fraction limbs of a magnitude that has no high zero limb
RECURSIVE normLow(_, _, _)
normLow(neg, m, e) ==
    IF m = <<>> THEN [nan |-> FALSE, neg |-> FALSE, mag |-> <<>>, e |-> 0]
    ELSE IF e > 0 /\ m[1] = 0 THEN normLow(neg, Tail(m), e - 1)
    ELSE [nan |-> FALSE, neg |-> neg, mag |-> m, e |-> e]

\* the one representation of a value: no high zero limb, no zero fraction
\* limb, zero unsigned
norm(neg, mag, e) == normLow(neg, stripHigh(mag), e)

\* the literal n / 1000^e
Dec(n, e) == norm(FALSE, natOf(n), e)
Whole(n) == [nan |-> FALSE, neg |-> FALSE, mag |-> natOf(n), e |-> 0]
\* a two-decimal literal such as 0.85 or 6.42
Hundredths(n) == Dec(n * 10, 1)

isZero(x) == ~x.nan /\ x.mag = <<>>

numNeg(x) == IF x.nan \/ x.mag = <<>> THEN x ELSE [x EXCEPT !.neg = ~x.neg]

\* |a - b|
natDiff(a, b, c) == IF c >= 0 THEN natSub(a, b) ELSE natSub(b, a)

\* the sum of the values with signs xneg, yneg and magnitudes a, b at scale e
addAligned(xneg, yneg, a, b, e) ==
    norm(IF xneg = yneg \/ natCmp(a, b) >= 0 THEN xneg ELSE yneg,
         IF xneg = yneg THEN natAdd(a, b) ELSE natDiff(a, b, natCmp(a, b)),
         e)

numAdd(x, y) ==
    IF x.nan \/ y.nan THEN NaN
    ELSE addAligned(x.neg, y.neg,
                    shift(x.mag, IF x.e >= y.e THEN 0 ELSE y.e - x.e),
                    shift(y.mag, IF y.e >= x.e THEN 0 ELSE x.e - y.e),
                    IF x.e >= y.e THEN x.e ELSE y.e)

numSub(x, y) == numAdd(x, numNeg(y))

numMul(x, y) ==
    IF x.nan \/ y.nan THEN NaN
    ELSE norm(x.neg # y.neg, natMul(x.mag, y.mag), x.e + y.e)

isNegative(d) == ~d.nan /\ d.neg
isNotPositive(d) == ~d.nan /\ (d.neg \/ d.mag = <<>>)

\* x < y and x <= y; false when either side is NaN
numLT(x, y) == isNegative(numSub(x, y))
numLE(x, y) == isNotPositive(numSub(x, y))

MathMin(x, y) == IF x.nan \/ y.nan THEN NaN ELSE IF numLE(x, y) THEN x ELSE y
MathMax(x, y) == IF x.nan \/ y.nan THEN NaN ELSE IF numLE(x, y) THEN y ELSE x

RECURSIVE MathPow(_, _)
MathPow(x, n) == IF n = 0 THEN Whole(1) ELSE numMul(x, MathPow(x, n - 1))

MathCeil(x) ==
    IF x.nan THEN NaN
    ELSE norm(x.neg,
              IF ~x.neg /\ \E i \in 1..x.e : limb(x.mag, i) # 0
              THEN natAdd(SubSeq(x.mag, x.e + 1, Len(x.mag)), <<1>>)
              ELSE SubSeq(x.mag, x.e + 1, Len(x.mag)),
              0)

\* x / 10
divTen(x) == numMul(x, Dec(100, 1))

DigitChar(d) == <<"0","1","2","3","4","5","6","7","8","9">>[d + 1]

RECURSIVE IntToStr(_)
IntToStr(n) ==
    IF n < 10 THEN <<DigitChar(n)>>
    ELSE IntToStr(n \div 10) \o <<DigitChar(n % 10)>>

\* the text of n tenths
tenthsToStr(neg, n) ==
    (IF neg /\ n > 0 THEN <<"-">> ELSE <<>>)
    \o IntToStr(n \div 10) \o <<".">> \o <<DigitChar(n % 10)>>

\* floor of a value that is not negative, as an integer
floorInt(t) == natToInt(SubSeq(t.mag, t.e + 1, Len(t.mag)))

\* x.toFixed(1): x to the nearest tenth, written with one decimal
toFixed1(x) ==
    IF x.nan THEN <<"N","a","N">>
    ELSE tenthsToStr(x.neg,
             floorInt(numAdd(numMul([x EXCEPT !.neg = FALSE], Whole(10)), Dec(500, 1))))

(***************************************************************************)
(* Score engine                                                            *)
(***************************************************************************)
\* the weights in hundredths
CVSS3_WEIGHTS ==
    (kAV :> ((vN :> 85) @@ (vA :> 62) @@ (vL :> 55) @@ (vP :> 20))) @@
    (kAC :> ((vL :> 77) @@ (vH :> 44))) @@
    (kPR :> ((vN :> ((vU :> 85) @@ (vC :> 85))) @@
             (vL :> ((vU :> 62) @@ (vC :> 68))) @@
             (vH :> ((vU :> 27) @@ (vC :> 50))))) @@
    (kUI :> ((vN :> 85) @@ (vR :> 62))) @@
    (kC :> ((vN :> 0) @@ (vL :> 22) @@ (vH :> 56))) @@
    (kI :> ((vN :> 0) @@ (vL :> 22) @@ (vH :> 56))) @@
    (kA :> ((vN :> 0) @@ (vL :> 22) @@ (vH :> 56)))

\* the object literals indexed inside calculateCVSSv4Score, in hundredths
CVSS4_WEIGHTS ==
    (kAV :> ((vN :> 85) @@ (vA :> 62) @@ (vL :> 55) @@ (vP :> 20))) @@
    (kAC :> ((vL :> 77) @@ (vH :> 44))) @@
    (kAT :> ((vN :> 100) @@ (vP :> 80))) @@
    (kPR :> ((vN :> 85) @@ (vL :> 62) @@ (vH :> 27))) @@
    (kUI :> ((vN :> 85) @@ (vP :> 70) @@ (vA :> 62))) @@
    (kVC :> ((vN :> 0) @@ (vL :> 22) @@ (vH :> 56))) @@
    (kVI :> ((vN :> 0) @@ (vL :> 22) @@ (vH :> 56))) @@
    (kVA :> ((vN :> 0) @@ (vL :> 22) @@ (vH :> 56))) @@
    (kSC :> ((vN :> 0) @@ (vL :> 22) @@ (vH :> 56))) @@
    (kSI :> ((vN :> 0) @@ (vL :> 22) @@ (vH :> 56))) @@
    (kSA :> ((vN :> 0) @@ (vL :> 22) @@ (vH :> 56)))

\* table[value] used as a number: a value the table lacks reads as undefined,
\* which every arithmetic operator turns into NaN
Weight(table, value) ==
    IF value \in DOMAIN table THEN Hundredths(table[value]) ELSE NaN

\* roundUp with Math.floor(value * 10) for Math.ceil(value * 10)
roundUpFloor(value) == divTen(Whole(floorInt(numMul(value, Whole(10)))))

\* roundUp with Math.floor(value * 10 + 0.5) for Math.ceil(value * 10)
roundUpNearest(value) ==
    divTen(Whole(floorInt(numAdd(numMul(value, Whole(10)), Dec(500, 1)))))

roundUp(value) == divTen(MathCeil(numMul(value, Whole(10))))

\* 1 - ((1 - c) * (1 - i) * (1 - a)): the ISS of v3, vulnImpact and subImpact of v4
impactSubScore(c, i, a) ==
    numSub(Whole(1),
           numMul(numMul(numSub(Whole(1), c), numSub(Whole(1), i)),
                  numSub(Whole(1), a)))

\* impactV3 with the two Scope branches exchanged
impactV3Swapped(S, iss) ==
    IF S # vU
    THEN numMul(Hundredths(642), iss)
    ELSE numSub(numMul(Hundredths(752), numSub(iss, Dec(29, 1))),
                numMul(Hundredths(325), MathPow(numSub(iss, Dec(20, 1)), 15)))

impactV3(S, iss) ==
    IF S = vU
    THEN numMul(Hundredths(642), iss)
    ELSE numSub(numMul(Hundredths(752), numSub(iss, Dec(29, 1))),
                numMul(Hundredths(325), MathPow(numSub(iss, Dec(20, 1)), 15)))

exploitabilityV3(avScore, acScore, prScore, uiScore) ==
    numMul(numMul(numMul(numMul(Hundredths(822), avScore), acScore), prScore), uiScore)

\* baseScoreV3 without Math.min(..., 10)
baseScoreV3NoCap(S, impact, sum) ==
    IF numLE(impact, Whole(0)) THEN Whole(0)
    ELSE IF S = vU THEN sum
    ELSE numMul(Hundredths(108), sum)

\* baseScoreV3 with impact < 0 for impact <= 0
baseScoreV3Strict(S, impact, sum) ==
    IF numLT(impact, Whole(0)) THEN Whole(0)
    ELSE IF S = vU THEN MathMin(sum, Whole(10))
    ELSE MathMin(numMul(Hundredths(108), sum), Whole(10))

\* baseScoreV3 without the factor 1.08 of the changed-scope branch
baseScoreV3Unscaled(S, impact, sum) ==
    IF numLE(impact, Whole(0)) THEN Whole(0)
    ELSE MathMin(sum, Whole(10))

baseScoreV3(S, impact, sum) ==
    IF numLE(impact, Whole(0)) THEN Whole(0)
    ELSE IF S = vU THEN MathMin(sum, Whole(10))
    ELSE MathMin(numMul(Hundredths(108), sum), Whole(10))

\* impact and exploitability to the base score
scoreV3(S, impact, exploitability) ==
    roundUp(baseScoreV3(S, impact, numAdd(impact, exploitability)))

\* [threw, value]: CVSS3_WEIGHTS.PR[PR][S] is a TypeError when PR is no key
\* of the PR table
calculateCVSSv3Score(metrics) ==
    IF Get(metrics, kPR) \notin DOMAIN CVSS3_WEIGHTS[kPR]
    THEN [threw |-> TRUE, value |-> NaN]
    ELSE [threw |-> FALSE,
          value |->
            scoreV3(Get(metrics, kS),
                    impactV3(Get(metrics, kS),
                             impactSubScore(Weight(CVSS3_WEIGHTS[kC], Get(metrics, kC)),
                                            Weight(CVSS3_WEIGHTS[kI], Get(metrics, kI)),
                                            Weight(CVSS3_WEIGHTS[kA], Get(metrics, kA)))),
                    exploitabilityV3(
                        Weight(CVSS3_WEIGHTS[kAV], Get(metrics, kAV)),
                        Weight(CVSS3_WEIGHTS[kAC], Get(metrics, kAC)),
                        Weight(CVSS3_WEIGHTS[kPR][Get(metrics, kPR)], Get(metrics, kS)),
                        Weight(CVSS3_WEIGHTS[kUI], Get(metrics, kUI))))]

exploitabilityV4(avWeight, acWeight, atWeight, prWeight, uiWeight) ==
    numMul(numMul(numMul(numMul(numMul(Hundredths(822), avWeight), acWeight),
                         atWeight), prWeight), uiWeight)

scoreV4(vulnImpact, subImpact, exploitability) ==
    roundUp(MathMin(numAdd(numMul(Hundredths(642), MathMax(vulnImpact, subImpact)),
                           exploitability),
                    Whole(10)))

calculateCVSSv4Score(metrics) ==
    [threw |-> FALSE,
     value |->
        scoreV4(impactSubScore(Weight(CVSS4_WEIGHTS[kVC], Get(metrics, kVC)),
                               Weight(CVSS4_WEIGHTS[kVI], Get(metrics, kVI)),
                               Weight(CVSS4_WEIGHTS[kVA], Get(metrics, kVA))),
                impactSubScore(Weight(CVSS4_WEIGHTS[kSC], Get(metrics, kSC)),
                               Weight(CVSS4_WEIGHTS[kSI], Get(metrics, kSI)),
                               Weight(CVSS4_WEIGHTS[kSA], Get(metrics, kSA))),
                exploitabilityV4(Weight(CVSS4_WEIGHTS[kAV], Get(metrics, kAV)),
                                 Weight(CVSS4_WEIGHTS[kAC], Get(metrics, kAC)),
                                 Weight(CVSS4_WEIGHTS[kAT], Get(metrics, kAT)),
                                 Weight(CVSS4_WEIGHTS[kPR], Get(metrics, kPR)),
                                 Weight(CVSS4_WEIGHTS[kUI], Get(metrics, kUI))))]

calculateScore(version, metrics) ==
    IF version = 3 THEN calculateCVSSv3Score(metrics) ELSE calculateCVSSv4Score(metrics)

\* getSeverity with <= for < at the three thresholds
getSeverityInclusive(score) ==
    IF isZero(score) THEN "None"
    ELSE IF numLE(score, Whole(4)) THEN "Low"
    ELSE IF numLE(score, Whole(7)) THEN "Medium"
    ELSE IF numLE(score, Whole(9)) THEN "High"
    ELSE "Critical"

\* baseScore of calculateCVSSv3Score, the value handed to roundUp
baseV3(S, impact, exploitability) ==
    baseScoreV3(S, impact, numAdd(impact, exploitability))

\* the value calculateScore hands to roundUp, for metrics with known weights
baseScore(version, metrics) ==
    IF version = 3
    THEN baseV3(Get(metrics, kS),
                impactV3(Get(metrics, kS),
                         impactSubScore(Weight(CVSS3_WEIGHTS[kC], Get(metrics, kC)),
                                        Weight(CVSS3_WEIGHTS[kI], Get(metrics, kI)),
                                        Weight(CVSS3_WEIGHTS[kA], Get(metrics, kA)))),
                exploitabilityV3(
                    Weight(CVSS3_WEIGHTS[kAV], Get(metrics, kAV)),
                    Weight(CVSS3_WEIGHTS[kAC], Get(metrics, kAC)),
                    Weight(CVSS3_WEIGHTS[kPR][Get(metrics, kPR)], Get(metrics, kS)),
                    Weight(CVSS3_WEIGHTS[kUI], Get(metrics, kUI))))
    ELSE MathMin(
            numAdd(numMul(Hundredths(642),
                          MathMax(impactSubScore(Weight(CVSS4_WEIGHTS[kVC], Get(metrics, kVC)),
                                                 Weight(CVSS4_WEIGHTS[kVI], Get(metrics, kVI)),
                                                 Weight(CVSS4_WEIGHTS[kVA], Get(metrics, kVA))),
                                  impactSubScore(Weight(CVSS4_WEIGHTS[kSC], Get(metrics, kSC)),
                                                 Weight(CVSS4_WEIGHTS[kSI], Get(metrics, kSI)),
                                                 Weight(CVSS4_WEIGHTS[kSA], Get(metrics, kSA))))),
                   exploitabilityV4(Weight(CVSS4_WEIGHTS[kAV], Get(metrics, kAV)),
                                    Weight(CVSS4_WEIGHTS[kAC], Get(metrics, kAC)),
                                    Weight(CVSS4_WEIGHTS[kAT], Get(metrics, kAT)),
                                    Weight(CVSS4_WEIGHTS[kPR], Get(metrics, kPR)),
                                    Weight(CVSS4_WEIGHTS[kUI], Get(metrics, kUI)))),
            Whole(10))

getSeverity(score) ==
    IF isZero(score) THEN "None"
    ELSE IF numLT(score, Whole(4)) THEN "Low"
    ELSE IF numLT(score, Whole(7)) THEN "Medium"
    ELSE IF numLT(score, Whole(9)) THEN "High"
    ELSE "Critical"

(***************************************************************************)
(* Cross-version conversion: the two branches of convertVector             *)
(***************************************************************************)
NoteUIv3 == "UI:R mapped to UI:P (Passive). Consider if UI:A (Active) is more appropriate."
NoteScopev3 == "Scope:Changed mapped to both Vulnerable and Subsequent system impacts. Review appropriateness."
NoteATv3 == "AT (Attack Requirements) set to None - no v3 equivalent."
NoteUIv4 == "UI:P or UI:A mapped to UI:R (Required). v3 has less granularity."
NoteScopev4 == "Subsequent system impacts detected - Scope set to Changed."
NoteATv4 == "AT (Attack Requirements) metric has no v3 equivalent and was dropped."
NoteImpactv4 == "Impact metrics merged from Vulnerable and Subsequent systems (using maximum)."

order == (vN :> 0) @@ (vL :> 1) @@ (vH :> 2)

\* maxImpact with <= for >=
maxImpactLeast(impact1, impact2) ==
    IF impact1 \in DOMAIN order /\ impact2 \in DOMAIN order
       /\ order[impact1] <= order[impact2]
    THEN impact1
    ELSE impact2

\* order[x] >= order[y] is false as soon as one side is undefined
maxImpact(impact1, impact2) ==
    IF impact1 \in DOMAIN order /\ impact2 \in DOMAIN order
       /\ order[impact1] >= order[impact2]
    THEN impact1
    ELSE impact2

\* convertV3toV4 with the Scope=U assignments of SC, SI, SA in both branches
convertV3toV4VulnerableOnly(metrics) ==
    LET uiN == Get(metrics, kUI) = vN
        sU == Get(metrics, kS) = vU
    IN  [convertedMetrics |->
            (kAV :> Get(metrics, kAV)) @@ (kAC :> Get(metrics, kAC)) @@
            (kAT :> vN) @@ (kPR :> Get(metrics, kPR)) @@
            (kUI :> IF uiN THEN vN ELSE vP) @@
            (kVC :> Get(metrics, kC)) @@ (kVI :> Get(metrics, kI)) @@
            (kVA :> Get(metrics, kA)) @@
            (kSC :> vN) @@
            (kSI :> vN) @@
            (kSA :> vN),
         warnings |->
            (IF uiN THEN <<>> ELSE <<NoteUIv3>>) \o
            (IF sU THEN <<>> ELSE <<NoteScopev3>>) \o
            <<NoteATv3>>]

\* convertV3toV4 with UI:R mapped to A
convertV3toV4Active(metrics) ==
    LET uiN == Get(metrics, kUI) = vN
        sU == Get(metrics, kS) = vU
    IN  [convertedMetrics |->
            (kAV :> Get(metrics, kAV)) @@ (kAC :> Get(metrics, kAC)) @@
            (kAT :> vN) @@ (kPR :> Get(metrics, kPR)) @@
            (kUI :> IF uiN THEN vN ELSE vA) @@
            (kVC :> Get(metrics, kC)) @@ (kVI :> Get(metrics, kI)) @@
            (kVA :> Get(metrics, kA)) @@
            (kSC :> IF sU THEN vN ELSE Get(metrics, kC)) @@
            (kSI :> IF sU THEN vN ELSE Get(metrics, kI)) @@
            (kSA :> IF sU THEN vN ELSE Get(metrics, kA)),
         warnings |->
            (IF uiN THEN <<>> ELSE <<NoteUIv3>>) \o
            (IF sU THEN <<>> ELSE <<NoteScopev3>>) \o
            <<NoteATv3>>]

\* convertV3toV4 with the Scope note pushed in the Scope=U branch
convertV3toV4NoteInUnchanged(metrics) ==
    LET uiN == Get(metrics, kUI) = vN
        sU == Get(metrics, kS) = vU
    IN  [convertedMetrics |->
            (kAV :> Get(metrics, kAV)) @@ (kAC :> Get(metrics, kAC)) @@
            (kAT :> vN) @@ (kPR :> Get(metrics, kPR)) @@
            (kUI :> IF uiN THEN vN ELSE vP) @@
            (kVC :> Get(metrics, kC)) @@ (kVI :> Get(metrics, kI)) @@
            (kVA :> Get(metrics, kA)) @@
            (kSC :> IF sU THEN vN ELSE Get(metrics, kC)) @@
            (kSI :> IF sU THEN vN ELSE Get(metrics, kI)) @@
            (kSA :> IF sU THEN vN ELSE Get(metrics, kA)),
         warnings |->
            (IF uiN THEN <<>> ELSE <<NoteUIv3>>) \o
            (IF sU THEN <<NoteScopev3>> ELSE <<>>) \o
            <<NoteATv3>>]

\* [convertedMetrics, warnings] of the v3 -> v4 branch
convertV3toV4(metrics) ==
    LET uiN == Get(metrics, kUI) = vN
        sU == Get(metrics, kS) = vU
    IN  [convertedMetrics |->
            (kAV :> Get(metrics, kAV)) @@ (kAC :> Get(metrics, kAC)) @@
            (kAT :> vN) @@ (kPR :> Get(metrics, kPR)) @@
            (kUI :> IF uiN THEN vN ELSE vP) @@
            (kVC :> Get(metrics, kC)) @@ (kVI :> Get(metrics, kI)) @@
            (kVA :> Get(metrics, kA)) @@
            (kSC :> IF sU THEN vN ELSE Get(metrics, kC)) @@
            (kSI :> IF sU THEN vN ELSE Get(metrics, kI)) @@
            (kSA :> IF sU THEN vN ELSE Get(metrics, kA)),
         warnings |->
            (IF uiN THEN <<>> ELSE <<NoteUIv3>>) \o
            (IF sU THEN <<>> ELSE <<NoteScopev3>>) \o
            <<NoteATv3>>]

\* convertV4toV3 with hasSubsequentImpact joined by && for ||
convertV4toV3AllSubsequent(metrics) ==
    LET uiN == Get(metrics, kUI) = vN
        hasSubsequentImpact ==
            /\ Get(metrics, kSC) # vN
            /\ Get(metrics, kSI) # vN
            /\ Get(metrics, kSA) # vN
    IN  [convertedMetrics |->
            (kAV :> Get(metrics, kAV)) @@ (kAC :> Get(metrics, kAC)) @@
            (kPR :> Get(metrics, kPR)) @@
            (kUI :> IF uiN THEN vN ELSE vR) @@
            (kS :> IF hasSubsequentImpact THEN vC ELSE vU) @@
            (kC :> maxImpact(Get(metrics, kVC), Get(metrics, kSC))) @@
            (kI :> maxImpact(Get(metrics, kVI), Get(metrics, kSI))) @@
            (kA :> maxImpact(Get(metrics, kVA), Get(metrics, kSA))),
         warnings |->
            (IF uiN THEN <<>> ELSE <<NoteUIv4>>) \o
            (IF hasSubsequentImpact THEN <<NoteScopev4>> ELSE <<>>) \o
            <<NoteATv4, NoteImpactv4>>]

\* convertV4toV3 with AT copied like AV, AC and PR
convertV4toV3KeepAT(metrics) ==
    LET uiN == Get(metrics, kUI) = vN
        hasSubsequentImpact ==
            \/ Get(metrics, kSC) # vN
            \/ Get(metrics, kSI) # vN
            \/ Get(metrics, kSA) # vN
    IN  [convertedMetrics |->
            (kAV :> Get(metrics, kAV)) @@ (kAC :> Get(metrics, kAC)) @@
            (kAT :> Get(metrics, kAT)) @@ (kPR :> Get(metrics, kPR)) @@
            (kUI :> IF uiN THEN vN ELSE vR) @@
            (kS :> IF hasSubsequentImpact THEN vC ELSE vU) @@
            (kC :> maxImpact(Get(metrics, kVC), Get(metrics, kSC))) @@
            (kI :> maxImpact(Get(metrics, kVI), Get(metrics, kSI))) @@
            (kA :> maxImpact(Get(metrics, kVA), Get(metrics, kSA))),
         warnings |->
            (IF uiN THEN <<>> ELSE <<NoteUIv4>>) \o
            (IF hasSubsequentImpact THEN <<NoteScopev4>> ELSE <<>>) \o
            <<NoteATv4, NoteImpactv4>>]

\* convertV4toV3 without the last warnings.push
convertV4toV3NoMergeNote(metrics) ==
    LET uiN == Get(metrics, kUI) = vN
        hasSubsequentImpact ==
            \/ Get(metrics, kSC) # vN
            \/ Get(metrics, kSI) # vN
            \/ Get(metrics, kSA) # vN
    IN  [convertedMetrics |->
            (kAV :> Get(metrics, kAV)) @@ (kAC :> Get(metrics, kAC)) @@
            (kPR :> Get(metrics, kPR)) @@
            (kUI :> IF uiN THEN vN ELSE vR) @@
            (kS :> IF hasSubsequentImpact THEN vC ELSE vU) @@
            (kC :> maxImpact(Get(metrics, kVC), Get(metrics, kSC))) @@
            (kI :> maxImpact(Get(metrics, kVI), Get(metrics, kSI))) @@
            (kA :> maxImpact(Get(metrics, kVA), Get(metrics, kSA))),
         warnings |->
            (IF uiN THEN <<>> ELSE <<NoteUIv4>>) \o
            (IF hasSubsequentImpact THEN <<NoteScopev4>> ELSE <<>>) \o
            <<NoteATv4>>]

\* convertV4toV3 with UI copied like AV, AC and PR
convertV4toV3CopyUI(metrics) ==
    LET uiN == Get(metrics, kUI) = vN
        hasSubsequentImpact ==
            \/ Get(metrics, kSC) # vN
            \/ Get(metrics, kSI) # vN
            \/ Get(metrics, kSA) # vN
    IN  [convertedMetrics |->
            (kAV :> Get(metrics, kAV)) @@ (kAC :> Get(metrics, kAC)) @@
            (kPR :> Get(metrics, kPR)) @@
            (kUI :> Get(metrics, kUI)) @@
            (kS :> IF hasSubsequentImpact THEN vC ELSE vU) @@
            (kC :> maxImpact(Get(metrics, kVC), Get(metrics, kSC))) @@
            (kI :> maxImpact(Get(metrics, kVI), Get(metrics, kSI))) @@
            (kA :> maxImpact(Get(metrics, kVA), Get(metrics, kSA))),
         warnings |->
            (IF uiN THEN <<>> ELSE <<NoteUIv4>>) \o
            (IF hasSubsequentImpact THEN <<NoteScopev4>> ELSE <<>>) \o
            <<NoteATv4, NoteImpactv4>>]

\* [convertedMetrics, warnings] of the v4 -> v3 branch
convertV4toV3(metrics) ==
    LET uiN == Get(metrics, kUI) = vN
        hasSubsequentImpact ==
            \/ Get(metrics, kSC) # vN
            \/ Get(metrics, kSI) # vN
            \/ Get(metrics, kSA) # vN
    IN  [convertedMetrics |->
            (kAV :> Get(metrics, kAV)) @@ (kAC :> Get(metrics, kAC)) @@
            (kPR :> Get(metrics, kPR)) @@
            (kUI :> IF uiN THEN vN ELSE vR) @@
            (kS :> IF hasSubsequentImpact THEN vC ELSE vU) @@
            (kC :> maxImpact(Get(metrics, kVC), Get(metrics, kSC))) @@
            (kI :> maxImpact(Get(metrics, kVI), Get(metrics, kSI))) @@
            (kA :> maxImpact(Get(metrics, kVA), Get(metrics, kSA))),
         warnings |->
            (IF uiN THEN <<>> ELSE <<NoteUIv4>>) \o
            (IF hasSubsequentImpact THEN <<NoteScopev4>> ELSE <<>>) \o
            <<NoteATv4, NoteImpactv4>>]

convertMetrics(version, metrics) ==
    IF version = 3 THEN convertV3toV4(metrics) ELSE convertV4toV3(metrics)

(***************************************************************************)
(* The page: the two globals and the DOM fields, as one record             *)
(***************************************************************************)
NoAlert == [text |-> "", metric |-> <<>>]

\* the metric values the scoring tables know, per version and key
legalValues(version, key) ==
    IF version = 3
    THEN (IF key = kS THEN DOMAIN CVSS3_WEIGHTS[kPR][vN] ELSE DOMAIN CVSS3_WEIGHTS[key])
    ELSE DOMAIN CVSS4_WEIGHTS[key]

requiredKeys(version) == {required(version)[i] : i \in 1..Len(required(version))}

\* the .metric-btn elements of the #v3-metrics / #v4-metrics container, as
\* <<data-metric, data-value>>: one button per key and legal value
metricButtons(version) ==
    UNION {{<<key, value>> : value \in legalValues(version, key)} :
           key \in requiredKeys(version)}

\* the buttons of one container that updateUI leaves selected
markedButtons(version, metrics) ==
    {<<version, b[1], b[2]>> :
        b \in {c \in metricButtons(version) : Get(metrics, c[1]) = c[2]}}

\* the rest of updateUI once the vector is generated and the score computed
\* or thrown: an exception out of calculateScore leaves the score, the
\* severity and the conversion panel as they were
render(p, vector, score) ==
    IF score.threw
    THEN [p EXCEPT !.selected = {b \in @ : b[1] # p.currentVersion}
                                \cup markedButtons(p.currentVersion, p.currentMetrics),
                   !.currentVector = vector,
                   !.vectorString = vector,
                   !.threw = TRUE]
    ELSE [p EXCEPT !.selected = {b \in @ : b[1] # p.currentVersion}
                                \cup markedButtons(p.currentVersion, p.currentMetrics),
                   !.currentVector = vector,
                   !.vectorString = vector,
                   !.score = score.value,
                   !.scoreDisplay = toFixed1(score.value),
                   !.severityDisplay = getSeverity(score.value),
                   !.conversionResult = FALSE]

updateUI(p) ==
    render(p, generateVector(p.currentVersion, p.currentMetrics),
           calculateScore(p.currentVersion, p.currentMetrics))

initializeDefaultMetrics(p) == updateUI([p EXCEPT !.currentMetrics = defaultV3])

switchVersion(p, version) ==
    updateUI([p EXCEPT !.currentVersion = version,
                       !.currentMetrics = IF version = 3 THEN defaultV3 ELSE defaultV4])

\* selectMetric without the closing updateUI()
selectMetricNoUpdate(p, metric, value) ==
    [p EXCEPT
        !.currentMetrics = Put(@, metric, value),
        !.selected = {b \in @ : ~(b[1] = p.currentVersion /\ b[2] = metric)}
                     \cup {<<p.currentVersion, metric, value>>}]

\* button is a <<data-metric, data-value>> of the visible container, which
\* is the container of p.currentVersion
selectMetric(p, metric, value) ==
    updateUI([p EXCEPT
        !.currentMetrics = Put(@, metric, value),
        !.selected = {b \in @ : ~(b[1] = p.currentVersion /\ b[2] = metric)}
                     \cup {<<p.currentVersion, metric, value>>}])

\* assignSegment without the if (key && value) test
assignSegmentUnchecked(newMetrics, kv) ==
    Put(newMetrics, kv[1], IF Len(kv) >= 2 THEN kv[2] ELSE Undefined)

\* [key, value] = piece.split(':'); if (key && value) newMetrics[key] = value
assignSegment(newMetrics, kv) ==
    IF Truthy(kv[1]) /\ Len(kv) >= 2 /\ Truthy(kv[2])
    THEN Put(newMetrics, kv[1], kv[2])
    ELSE newMetrics

\* the loop over parts[1..]
RECURSIVE parseSegments(_, _, _)
parseSegments(parts, i, newMetrics) ==
    IF i > Len(parts) THEN newMetrics
    ELSE parseSegments(parts, i + 1, assignSegment(newMetrics, split(parts[i], ":")))

\* firstMissing without the return inside the loop: the last alert stands
RECURSIVE firstMissingLast(_, _, _)
firstMissingLast(req, newMetrics, i) ==
    IF i > Len(req) THEN <<>>
    ELSE IF firstMissingLast(req, newMetrics, i + 1) # <<>>
    THEN firstMissingLast(req, newMetrics, i + 1)
    ELSE IF ~Truthy(Get(newMetrics, req[i])) THEN req[i]
    ELSE <<>>

\* the first key of req with !newMetrics[key], <<>> when there is none
RECURSIVE firstMissing(_, _, _)
firstMissing(req, newMetrics, i) ==
    IF i > Len(req) THEN <<>>
    ELSE IF ~Truthy(Get(newMetrics, req[i])) THEN req[i]
    ELSE firstMissing(req, newMetrics, i + 1)

\* prefixVersion testing only for 'CVSS:' and for 'CVSS:4'
prefixVersionLoose(vs) ==
    IF startsWith(vs, <<"C","V","S","S",":","4">>) THEN 4
    ELSE IF startsWith(vs, <<"C","V","S","S",":">>) THEN 3
    ELSE 0

\* the version the prefix names, 0 when it names none
prefixVersion(vs) ==
    IF startsWith(vs, prefix30) \/ startsWith(vs, prefix31) THEN 3
    ELSE IF startsWith(vs, prefix40) THEN 4
    ELSE 0

\* "Validate metrics" and what follows, on the page as switchVersion left it
installMetrics(p, newMetrics, missing) ==
    IF missing # <<>>
    THEN [p EXCEPT !.alertMsg =
             [text |-> "Missing required metric: ", metric |-> missing]]
    ELSE updateUI([p EXCEPT !.currentMetrics = newMetrics])

\* parseVersion with the version switched after the metrics are installed
parseVersionSwitchLast(p, vs, version, newMetrics) ==
    IF firstMissing(required(version), newMetrics, 1) # <<>>
    THEN installMetrics(p, newMetrics, firstMissing(required(version), newMetrics, 1))
    ELSE IF version # p.currentVersion
    THEN switchVersion(installMetrics(p, newMetrics, <<>>), version)
    ELSE installMetrics(p, newMetrics, <<>>)

\* parseVector from "Switch to correct version if needed" on
parseVersion(p, vs, version, newMetrics) ==
    installMetrics(IF version # p.currentVersion THEN switchVersion(p, version) ELSE p,
                   newMetrics,
                   firstMissing(required(version), newMetrics, 1))

parseTrimmed(p, vs) ==
    IF vs = <<>>
    THEN [p EXCEPT !.alertMsg =
             [text |-> "Please enter a CVSS vector string", metric |-> <<>>]]
    ELSE IF prefixVersion(vs) = 0
    THEN [p EXCEPT !.alertMsg =
             [text |-> "Invalid CVSS vector string. Must start with CVSS:3.0, CVSS:3.1, or CVSS:4.0",
              metric |-> <<>>]]
    ELSE parseVersion(p, vs, prefixVersion(vs),
                      parseSegments(split(vs, "/"), 2, EmptyObject))

parseVector(p) == parseTrimmed(p, trim(p.vectorString))

\* convertVector from "Generate converted vector" on, c the convertedMetrics
\* and warnings of the branch taken
showConverted(p, targetVersion, c) ==
    switchVersion([p EXCEPT
                      !.currentVersion = targetVersion,
                      !.currentMetrics = c.convertedMetrics,
                      !.convertedMetrics = c.convertedMetrics,
                      !.convertedVector = generateVector(targetVersion, c.convertedMetrics),
                      !.conversionWarning = c.warnings,
                      !.conversionResult = TRUE],
                  targetVersion)

convertVector(p) ==
    showConverted(p, IF p.currentVersion = 3 THEN 4 ELSE 3,
                  convertMetrics(p.currentVersion, p.currentMetrics))

clearAll(p) ==
    initializeDefaultMetrics([p EXCEPT !.vectorString = <<>>,
                                       !.conversionResult = FALSE])

(***************************************************************************)
(* Vector strings a user enters into #vector-string                        *)
(***************************************************************************)
seg(key, value) == <<"/">> \o key \o <<":">> \o value

scenario1 ==
    prefix31 \o seg(kAV, vN) \o seg(kAC, vL) \o seg(kPR, vN) \o seg(kUI, vN) \o
    seg(kS, vU) \o seg(kC, vH) \o seg(kI, vH) \o seg(kA, vH)

scenario3 ==
    prefix31 \o seg(kAV, vL) \o seg(kAC, vH) \o seg(kPR, vH) \o seg(kUI, vR) \o
    seg(kS, vC) \o seg(kC, vL) \o seg(kI, vL) \o seg(kA, vL)

\* tag 3.0, the segments in another order
reordered30 ==
    prefix30 \o seg(kA, vL) \o seg(kI, vN) \o seg(kC, vH) \o seg(kS, vC) \o
    seg(kUI, vR) \o seg(kPR, vL) \o seg(kAC, vH) \o seg(kAV, vA)

legal40 ==
    prefix40 \o seg(kAV, vN) \o seg(kAC, vL) \o seg(kAT, vP) \o seg(kPR, vL) \o
    seg(kUI, vA) \o seg(kVC, vH) \o seg(kVI, vL) \o seg(kVA, vN) \o
    seg(kSC, vN) \o seg(kSI, vH) \o seg(kSA, vN)

padded40 == <<" ">> \o legal40 \o <<" ", "\n">>

\* scenario 1 with segments that have no ':', no key or no value
junk31 ==
    prefix31 \o seg(kAV, vN) \o <<"/","F","O","O">> \o seg(kAC, vL) \o <<"/">> \o
    seg(kPR, vN) \o <<"/",":","X">> \o seg(kUI, vN) \o seg(kS, vU) \o
    <<"/","Q",":">> \o seg(kC, vH) \o seg(kI, vH) \o seg(kA, vH)

\* S and A absent
missing31 ==
    prefix31 \o seg(kAV, vN) \o seg(kAC, vL) \o seg(kPR, vN) \o seg(kUI, vN) \o
    seg(kC, vH) \o seg(kI, vH)

missing40 == prefix40 \o seg(kAV, vN)

version20 == <<"C","V","S","S",":","2",".","0">> \o seg(kAV, vN) \o seg(kAC, vL)

\* AV:X
illegalAV31 ==
    prefix31 \o seg(kAV, <<"X">>) \o seg(kAC, vL) \o seg(kPR, vN) \o seg(kUI, vN) \o
    seg(kS, vU) \o seg(kC, vH) \o seg(kI, vH) \o seg(kA, vH)

\* PR:X
illegalPR31 ==
    prefix31 \o seg(kAV, vN) \o seg(kAC, vL) \o seg(kPR, <<"X">>) \o seg(kUI, vN) \o
    seg(kS, vU) \o seg(kC, vH) \o seg(kI, vH) \o seg(kA, vH)

\* UI:R inside a 4.0 vector
illegalUI40 ==
    prefix40 \o seg(kAV, vN) \o seg(kAC, vL) \o seg(kAT, vN) \o seg(kPR, vN) \o
    seg(kUI, vR) \o seg(kVC, vH) \o seg(kVI, vH) \o seg(kVA, vH) \o
    seg(kSC, vN) \o seg(kSI, vN) \o seg(kSA, vN)

\* the metrics of scenario 1 without the CVSS:3.1 prefix
bare31 == SubSeq(scenario1, Len(prefix31) + 2, Len(scenario1))

Inputs ==
    {<<>>, <<" ", " ">>, version20, bare31, scenario1, scenario3, reordered30, legal40,
     padded40, junk31, missing31, missing40, illegalAV31, illegalPR31, illegalUI40}

(***************************************************************************)
(* The live fact generator (weird-science-fact/script.js), one copy per    *)
(* tab of a browser, and the worker it calls (cloudflare-worker).          *)
(*                                                                         *)
(* Time is Date.now() in milliseconds.  An item of localStorage is held as *)
(* the value JSON.parse returns for the text JSON.stringify wrote; the     *)
(* stored values are arrays of integers, which that round trip keeps.      *)
(* CONFIG.apiEndpoint is set to the deployed worker, so that init() leaves *)
(* the Generate button enabled.  All tabs share one client IP.             *)
(***************************************************************************)
Tabs == 1..MaxTabs

maxRequests == 5
timeWindow == 60 * 60 * 1000
MAX_REQUESTS == 5
WINDOW_MS == 60 * 60 * 1000

\* the clock when the first page opens
ClockStart == 24 * 60 * 60 * 1000

\* timestamps.filter(timestamp => t - timestamp < window)
recent(timestamps, t, window) ==
    SelectSeq(timestamps, LAMBDA timestamp : t - timestamp < window)

\* Math.min(...timestamps) of a non-empty array
oldest(timestamps) ==
    CHOOSE m \in {timestamps[i] : i \in 1..Len(timestamps)} :
        \A i \in 1..Len(timestamps) : m <= timestamps[i]

\* Math.ceil(ms / (60 * 1000)) for ms >= 0
ceilMinutes(ms) == (ms + 60 * 1000 - 1) \div (60 * 1000)

NoItem == [present |-> FALSE, requests |-> <<>>]
NullData == [isNull |-> TRUE, requests |-> <<>>]
NoError == [text |-> "", minutes |-> 0]
NoResponse == [path |-> "", status |-> 0, isTrue |-> FALSE]

loadRateLimitData(stored, t) ==
    IF stored.present
    THEN [isNull |-> FALSE, requests |-> recent(stored.requests, t, timeWindow)]
    ELSE [isNull |-> FALSE, requests |-> <<>>]

isRateLimited(rateLimitData, t) ==
    Len(recent(rateLimitData.requests, t, timeWindow)) >= maxRequests

getTimeUntilReset(rateLimitData, t) ==
    IF Len(rateLimitData.requests) = 0 THEN 0
    ELSE IF oldest(rateLimitData.requests) + timeWindow - t > 0
         THEN oldest(rateLimitData.requests) + timeWindow - t
         ELSE 0

\* the text updateRateLimitDisplay writes into #rate-limit-info
rateLimitInfoText(remaining, minutes) ==
    IF remaining <= 0 THEN [text |-> "Rate limit reached. Reset in", n |-> minutes]
    ELSE IF remaining <= 2 THEN [text |-> "remaining this hour (warning)", n |-> remaining]
    ELSE [text |-> "requests remaining this hour", n |-> remaining]

updateRateLimitDisplay(rateLimitData, t) ==
    rateLimitInfoText(maxRequests - Len(recent(rateLimitData.requests, t, timeWindow)),
                      ceilMinutes(getTimeUntilReset(rateLimitData, t)))

\* what saveLastFact stores: { fact, verification, imageUrl }, no timestamp,
\* so that loadLastFact reads data.timestamp || 0 as 0
savedFact == [present |-> TRUE, timestamp |-> 0]

\* loadLastFact shows the stored fact
loadLastFact(stored, t) == stored.present /\ t - stored.timestamp < 24 * 60 * 60 * 1000

\* checkRateLimit(clientIP) at time t: the verdict and the records it stores
checkRateLimit(records, t) ==
    IF Len(recent(records, t, WINDOW_MS)) >= MAX_REQUESTS
    THEN [allowed |-> FALSE, records |-> records]
    ELSE [allowed |-> TRUE, records |-> Append(recent(records, t, WINDOW_MS), t)]

\* handleRequest for a POST from an allowed origin; outcome is what the
\* routed call to the model does ("ok", "refuted", "throws")
handleRequest(path, allowed, outcome) ==
    IF ~allowed THEN [path |-> path, status |-> 429, isTrue |-> FALSE]
    ELSE IF outcome = "throws" THEN [path |-> path, status |-> 500, isTrue |-> FALSE]
    ELSE [path |-> path, status |-> 200, isTrue |-> outcome = "ok"]

\* what the routed call does: the first may fail, the second carries a verdict
outcomes(path) ==
    IF path = "/generate-fact" THEN {"ok", "throws"}
    ELSE IF path = "/verify-fact" THEN {"ok", "refuted"}
    ELSE {"ok"}

\* the message callAPI throws for a response that is not ok
apiError(response) ==
    IF response.status = 429 THEN "Error: Rate limit exceeded"
    ELSE "Error: Internal server error"

\* the localStorage of a browser that never opened the site
EmptyStorage ==
    [rateLimit |-> NoItem,
     lastFact |-> [present |-> FALSE, timestamp |-> 0],
     history |-> [present |-> FALSE, ids |-> <<>>],
     cache |-> [present |-> FALSE, facts |-> <<>>, timestamp |-> 0]]

LimiterIdle ==
    /\ now = ClockStart
    /\ state = [t \in Tabs |-> [isGenerating |-> FALSE, currentStep |-> 0,
                                 rateLimitData |-> NullData]]
    /\ elements = [t \in Tabs |-> [generateBtnDisabled |-> FALSE,
                                    rateLimitInfo |-> [text |-> "", n |-> 0],
                                    errorContainer |-> FALSE,
                                    errorMessage |-> NoError,
                                    results |-> FALSE]]
    /\ awaiting = [t \in Tabs |-> NoResponse]
    /\ rateLimitStore = <<>>
    /\ admitted = <<>>

(***************************************************************************)
(* The cached fact widget: facts are fact ids, 1 .. n for a facts.json of  *)
(* n facts; StaleId is the id of a fact of an earlier facts.json.          *)
(***************************************************************************)
historySize == 20
cacheExpiry == 24 * 60 * 60 * 1000

\* no fact: getRandomFact's null, state.currentFact's null, an empty container
NoFact == 0
StaleId == MaxFacts + 1

includes(ids, id) == \E i \in 1..Len(ids) : ids[i] = id

\* state.history after addToHistory(factId)
addToHistory(ids, factId) ==
    IF Len(ids) + 1 > historySize
    THEN SubSeq(Append(ids, factId), Len(ids) + 2 - historySize, Len(ids) + 1)
    ELSE Append(ids, factId)

availableFacts(list, ids) == SelectSeq(list, LAMBDA fact : ~includes(ids, fact))

factsToChooseFrom(list, ids) ==
    IF Len(availableFacts(list, ids)) > 0 THEN availableFacts(list, ids) ELSE list

\* getRandomFact on a non-empty list, Math.random() giving index randomIndex
\* (from 1) of factsToChooseFrom: the fact and the history it leaves
getRandomFact(list, ids, randomIndex) ==
    [fact |-> factsToChooseFrom(list, ids)[randomIndex],
     history |-> addToHistory(IF Len(availableFacts(list, ids)) = 0 THEN <<>> ELSE ids,
                              factsToChooseFrom(list, ids)[randomIndex])]

\* loadFromCache: the cached item is there and no older than cacheExpiry
loadFromCache(stored, t) == stored.present /\ ~(t - stored.timestamp > cacheExpiry)

\* histories an earlier visit may have left in localStorage
storedHistories ==
    UNION {[1..n -> 1..StaleId] : n \in 0..MaxStored} \cup {[i \in 1..historySize |-> StaleId]}

WidgetIdle ==
    /\ data = [isNull |-> TRUE, facts |-> <<>>]
    /\ history = <<>>
    /\ currentFact = NoFact
    /\ factContainer = NoFact
    /\ widgetError = ""
    /\ pendingFacts = <<>>

(***************************************************************************)
(* The fact generation script (scripts/generate-facts.js)                  *)
(***************************************************************************)
MAX_RETRIES == 3
RETRY_DELAY == 2000
MAX_CONSECUTIVE_FAILURES == 5

retryDelayFlat(n) == RETRY_DELAY

maxAttemptsTriple == FACT_COUNT * 3

\* const maxAttempts = CONFIG.FACT_COUNT * 2
maxAttempts == FACT_COUNT * 2

\* const delay = CONFIG.RETRY_DELAY * attempt
retryDelay(n) == RETRY_DELAY * n

lowerCase == <<"a","b","c","d","e","f","g","h","i","j","k","l","m","n","o","p","q","r","s","t","u","v","w","x","y","z">>
upperCase == <<"A","B","C","D","E","F","G","H","I","J","K","L","M","N","O","P","Q","R","S","T","U","V","W","X","Y","Z">>

toUpperCase(s) ==
    [i \in 1..Len(s) |->
        IF \E k \in 1..26 : lowerCase[k] = s[i]
        THEN upperCase[CHOOSE k \in 1..26 : lowerCase[k] = s[i]]
        ELSE s[i]]

\* the group (TRUE|FALSE) of /VERDICT:\s*(TRUE|FALSE)/i matched at position i,
\* Undefined if the pattern does not match there
verdictAt(s, i) ==
    IF ~startsWith(toUpperCase(SubSeq(s, i, Len(s))), <<"V","E","R","D","I","C","T",":">>) THEN Undefined
    ELSE IF startsWith(toUpperCase(trimStart(SubSeq(s, i + 8, Len(s)))), <<"T","R","U","E">>)
    THEN SubSeq(trimStart(SubSeq(s, i + 8, Len(s))), 1, 4)
    ELSE IF startsWith(toUpperCase(trimStart(SubSeq(s, i + 8, Len(s)))), <<"F","A","L","S","E">>)
    THEN SubSeq(trimStart(SubSeq(s, i + 8, Len(s))), 1, 5)
    ELSE Undefined

\* response.match(/VERDICT:\s*(TRUE|FALSE)/i)[1], Undefined without a match
verdictMatch(response) ==
    IF \E i \in 1..Len(response) : verdictAt(response, i) # Undefined
    THEN verdictAt(response, CHOOSE i \in 1..Len(response) :
                                /\ verdictAt(response, i) # Undefined
                                /\ \A j \in 1..(i - 1) : verdictAt(response, j) = Undefined)
    ELSE Undefined

verifyFactLenient(response) ==
    [isTrue |-> IF verdictMatch(response) # Undefined
                THEN toUpperCase(verdictMatch(response)) = <<"T","R","U","E">>
                ELSE TRUE,
     response |-> response]

\* what verifyFact returns for the model's response (with the response kept)
verifyFact(response) ==
    [isTrue |-> IF verdictMatch(response) # Undefined
                THEN toUpperCase(verdictMatch(response)) = <<"T","R","U","E">>
                ELSE FALSE,
     response |-> response]

\* answers of the model to the fact-checking prompt
verdictResponses ==
    {<<"V","E","R","D","I","C","T",":"," ","T","R","U","E","\n","C","O","N","F","I","D","E","N","C","E",":"," ","H","i","g","h">>,
     <<"V","E","R","D","I","C","T",":"," ","F","A","L","S","E","\n","C","O","N","F","I","D","E","N","C","E",":"," ","L","o","w">>,
     <<"V","e","r","d","i","c","t",":","t","r","u","e">>,
     <<"V","E","R","D","I","C","T",":","\n"," ","F","a","l","s","e">>,
     <<"V","E","R","D","I","C","T",":"," ","[","T","R","U","E","]">>,
     <<"T","h","i","s"," ","i","s"," ","T","R","U","E",".">>,
     <<"V","E","R","D","I","C","T",":"," ","u","n","s","u","r","e","\n","V","E","R","D","I","C","T",":"," ","T","R","U","E">>,
     <<>>}

NoVerification == [isTrue |-> FALSE, response |-> <<>>]

\* an entry of callLog: an API attempt with what it did ("ok", an API
\* "error", a "not_found" error, or "empty": a response without content, on
\* which response.content[0].text throws), a sleep of ms milliseconds, the
\* return of callClaude, or its throw with the error of the last attempt
Event(event, outcome, ms) == [event |-> event, outcome |-> outcome, ms |-> ms]

\* one turn of callClaude's loop with attempt = n: the log it leaves and the
\* next value of attempt (0 once callClaude has returned or thrown)
callClaude(log, n, outcome) ==
    IF outcome = "ok"
    THEN [attempt |-> 0,
          log |-> log \o <<Event("attempt", outcome, 0), Event("return", outcome, 0)>>]
    ELSE IF n < MAX_RETRIES
    THEN [attempt |-> n + 1,
          log |-> log \o <<Event("attempt", outcome, 0),
                           Event("sleep", outcome, retryDelay(n))>>]
    ELSE [attempt |-> 0,
          log |-> log \o <<Event("attempt", outcome, 0), Event("throw", outcome, 0)>>]

\* the callers of callClaude, in the order generateFactEntry calls them
callers == <<"generateFact", "verifyFact", "generateImageDescription", "generateSVG">>

ScriptIdle ==
    /\ pc = "main"
    /\ attempt = 0
    /\ callLog = <<>>
    /\ entryCalls = <<>>
    /\ verification = NoVerification
    /\ facts = <<>>
    /\ attempts = 0
    /\ consecutiveFailures = 0
    /\ outputFile = [written |-> FALSE, facts |-> <<>>]
    /\ exitCode = -1

(***************************************************************************)
(* The state machine: one action per event handler                         *)
(***************************************************************************)
Page ==
    [currentVersion |-> currentVersion, currentMetrics |-> currentMetrics,
     vectorString |-> vectorString, currentVector |-> currentVector,
     score |-> scoreValue,
     scoreDisplay |-> scoreDisplay, severityDisplay |-> severityDisplay,
     convertedMetrics |-> convertedMetrics,
     convertedVector |-> convertedVector, conversionWarning |-> conversionWarning,
     conversionResult |-> conversionResult, selected |-> selected,
     entered |-> entered, alertMsg |-> alertMsg, threw |-> threw]

\* what index.html holds before DOMContentLoaded
Blank ==
    [currentVersion |-> 3, currentMetrics |-> EmptyObject,
     vectorString |-> <<>>, currentVector |-> <<>>,
     score |-> NaN,
     scoreDisplay |-> <<>>, severityDisplay |-> "",
     convertedMetrics |-> EmptyObject,
     convertedVector |-> <<>>, conversionWarning |-> <<>>,
     conversionResult |-> FALSE, selected |-> {},
     entered |-> <<>>, alertMsg |-> NoAlert, threw |-> FALSE]

Becomes(q) ==
    /\ currentVersion' = q.currentVersion
    /\ currentMetrics' = q.currentMetrics
    /\ vectorString' = q.vectorString
    /\ currentVector' = q.currentVector
    /\ scoreValue' = q.score
    /\ scoreDisplay' = q.scoreDisplay
    /\ severityDisplay' = q.severityDisplay
    /\ convertedMetrics' = q.convertedMetrics
    /\ convertedVector' = q.convertedVector
    /\ conversionWarning' = q.conversionWarning
    /\ conversionResult' = q.conversionResult
    /\ selected' = q.selected
    /\ entered' = q.entered
    /\ alertMsg' = q.alertMsg
    /\ threw' = q.threw
    /\ UNCHANGED <<limiterVars, widgetVars, scriptVars>>

\* a handler starts with no alert shown and nothing thrown
Start == [Page EXCEPT !.entered = <<>>, !.alertMsg = NoAlert, !.threw = FALSE]

Handler(name, q) ==
    /\ nOps < MaxOps
    /\ nOps' = nOps + 1
    /\ lastOp' = name
    /\ Becomes(q)

PageIs(q) ==
    /\ currentVersion = q.currentVersion
    /\ currentMetrics = q.currentMetrics
    /\ vectorString = q.vectorString
    /\ currentVector = q.currentVector
    /\ scoreValue = q.score
    /\ scoreDisplay = q.scoreDisplay
    /\ severityDisplay = q.severityDisplay
    /\ convertedMetrics = q.convertedMetrics
    /\ convertedVector = q.convertedVector
    /\ conversionWarning = q.conversionWarning
    /\ conversionResult = q.conversionResult
    /\ selected = q.selected
    /\ entered = q.entered
    /\ alertMsg = q.alertMsg
    /\ threw = q.threw

\* no page of the site is open and the script is not running
SiteIdle == LimiterIdle /\ WidgetIdle /\ ScriptIdle

Loaded(q) == PageIs(q) /\ localStorage = EmptyStorage /\ SiteIdle

\* DOMContentLoaded: setupEventListeners(); initializeDefaultMetrics()
Init ==
    /\ Loaded(initializeDefaultMetrics(Blank))
    /\ lastOp = "load"
    /\ nOps = 0

SwitchVersion == \E version \in {3, 4} : Handler("switchVersion", switchVersion(Start, version))

SelectMetric ==
    \E b \in metricButtons(currentVersion) :
        Handler("selectMetric", selectMetric(Start, b[1], b[2]))

\* the user leaves the field as it is or enters one of Inputs, then clicks Parse
ParseVector ==
    \E text \in Inputs \cup {vectorString} :
        Handler("parseVector",
                parseVector([Start EXCEPT !.vectorString = text, !.entered = text]))

ConvertVector == Handler("convertVector", convertVector(Start))

ClearAll == Handler("clearAll", clearAll(Start))

Next == SwitchVersion \/ SelectMetric \/ ParseVector \/ ConvertVector \/ ClearAll

Spec == Init /\ [][Next]_vars

(***************************************************************************)
(* The pure functions on every legal metric set                            *)
(***************************************************************************)
legalV3Sets ==
    {(kAV :> av) @@ (kAC :> ac) @@ (kPR :> pr) @@ (kUI :> ui) @@ (kS :> sc) @@
     (kC :> c) @@ (kI :> i) @@ (kA :> a) :
        av \in legalValues(3, kAV), ac \in legalValues(3, kAC),
        pr \in legalValues(3, kPR), ui \in legalValues(3, kUI),
        sc \in legalValues(3, kS), c \in legalValues(3, kC),
        i \in legalValues(3, kI), a \in legalValues(3, kA)}

legalV4Sets ==
    {(kAV :> av) @@ (kAC :> ac) @@ (kAT :> at) @@ (kPR :> pr) @@ (kUI :> ui) @@
     (kVC :> vc) @@ (kVI :> vi) @@ (kVA :> va) @@
     (kSC :> sc) @@ (kSI :> si) @@ (kSA :> sa) :
        av \in legalValues(4, kAV), ac \in legalValues(4, kAC),
        at \in legalValues(4, kAT), pr \in legalValues(4, kPR),
        ui \in legalValues(4, kUI), vc \in legalValues(4, kVC),
        vi \in legalValues(4, kVI), va \in legalValues(4, kVA),
        sc \in legalValues(4, kSC), si \in legalValues(4, kSI),
        sa \in legalValues(4, kSA)}

legalMetricSets(version) == IF version = 3 THEN legalV3Sets ELSE legalV4Sets

\* the globals hold a legal metric set; nothing is computed or shown yet
InitLegal ==
    /\ \E version \in {3, 4} :
         \E metrics \in legalMetricSets(version) :
            Loaded([Blank EXCEPT !.currentVersion = version,
                                 !.currentMetrics = metrics])
    /\ lastOp = "load"
    /\ nOps = 0

Scored(r) ==
    /\ scoreValue' = r.value
    /\ scoreDisplay' = toFixed1(r.value)
    /\ severityDisplay' = getSeverity(r.value)
    /\ threw' = r.threw

\* calculateScore() and getSeverity(score), as updateUI calls them
CalculateScore ==
    /\ lastOp = "load"
    /\ lastOp' = "calculateScore"
    /\ Scored(calculateScore(currentVersion, currentMetrics))
    /\ UNCHANGED <<currentVersion, currentMetrics, vectorString, currentVector,
                   convertedMetrics, convertedVector, conversionWarning,
                   conversionResult, selected, entered, alertMsg, nOps>>
    /\ UNCHANGED <<limiterVars, widgetVars, scriptVars>>

SpecScore == InitLegal /\ [][CalculateScore]_vars

Converted(c) ==
    /\ convertedMetrics' = c.convertedMetrics
    /\ conversionWarning' = c.warnings

\* the branch of convertVector that builds convertedMetrics and warnings
ConvertMetrics ==
    /\ lastOp = "load"
    /\ lastOp' = "convertMetrics"
    /\ Converted(convertMetrics(currentVersion, currentMetrics))
    /\ UNCHANGED <<currentVersion, currentMetrics, vectorString, currentVector,
                   scoreValue, scoreDisplay, severityDisplay, convertedVector,
                   conversionResult, selected, entered, alertMsg, threw, nOps>>
    /\ UNCHANGED <<limiterVars, widgetVars, scriptVars>>

SpecConvert == InitLegal /\ [][ConvertMetrics]_vars
defaultMetrics(version) == IF version = 3 THEN defaultV3 ELSE defaultV4

\* the legal metric sets at most MaxVaried button clicks away from the default
variedMetricSets(version) ==
    {metrics \in legalMetricSets(version) :
        Cardinality({key \in requiredKeys(version) :
                        metrics[key] # defaultMetrics(version)[key]}) <= MaxVaried}

\* the page after load and a click on a version button, the vector string of
\* a legal metric set typed into the field
InitTyped ==
    /\ \E prior \in {3, 4} : \E version \in {3, 4} :
         \E metrics \in variedMetricSets(version) :
            Loaded([switchVersion(initializeDefaultMetrics(Blank), prior)
                       EXCEPT !.vectorString = generateVector(version, metrics)])
    /\ lastOp = "switchVersion"
    /\ nOps = 1

\* a click on Parse with the field as typed
ParseTyped ==
    /\ lastOp = "switchVersion"
    /\ lastOp' = "parseVector"
    /\ nOps' = nOps + 1
    /\ Becomes(parseVector([Start EXCEPT !.entered = vectorString]))

SpecCodec == InitTyped /\ [][ParseTyped]_vars
\* a score of t tenths, as roundUp returns it
Tenths(t) == Dec(t * 100, 1)

\* the page holds a score of 0.0 .. MaxTenths / 10, no label yet
InitScore ==
    /\ \E t \in 0..MaxTenths : Loaded([Blank EXCEPT !.score = Tenths(t)])
    /\ lastOp = "load"
    /\ nOps = 0

\* getSeverity(score), as updateUI shows it
GetSeverity ==
    /\ lastOp = "load"
    /\ lastOp' = "getSeverity"
    /\ severityDisplay' = getSeverity(scoreValue)
    /\ UNCHANGED <<currentVersion, currentMetrics, vectorString, currentVector,
                   scoreValue, scoreDisplay, convertedMetrics, convertedVector,
                   conversionWarning, conversionResult, selected, entered,
                   alertMsg, threw, nOps>>
    /\ UNCHANGED <<limiterVars, widgetVars, scriptVars>>

SpecSeverity == InitScore /\ [][GetSeverity]_vars

\* segments without ':', without a key or without a value
junkSegments == {<<"F","O","O">>, <<>>, <<":","X">>, <<"A","V",":">>, <<"A","V">>}

\* one to MaxJunk such segments in a row
junkFillers == UNION {[1..n -> junkSegments] : n \in 1..MaxJunk}

RECURSIVE joinPieces(_, _)
joinPieces(pieces, i) ==
    IF i > Len(pieces) THEN <<>>
    ELSE <<"/">> \o pieces[i] \o joinPieces(pieces, i + 1)

\* the vector of parts with filler put in after its pos-th part
insertJunk(parts, pos, filler) ==
    parts[1] \o joinPieces(SubSeq(parts, 2, pos) \o filler
                           \o SubSeq(parts, pos + 1, Len(parts)), 1)

\* the page after load and a successful parse of a complete legal vector
InitParsed ==
    /\ \E text \in {scenario1, scenario3, reordered30, legal40} :
          Loaded(parseVector([initializeDefaultMetrics(Blank)
                                 EXCEPT !.vectorString = text, !.entered = text]))
    /\ lastOp = "parseVector"
    /\ nOps = 1

\* the user puts junk segments into the vector shown in the field, then
\* clicks Parse
ParseJunk ==
    /\ nOps = 1
    /\ nOps' = 2
    /\ lastOp' = "parseVector"
    /\ \E filler \in junkFillers :
         \E pos \in 1..Len(split(vectorString, "/")) :
            \E text \in {insertJunk(split(vectorString, "/"), pos, filler)} :
               Becomes(parseVector([Start EXCEPT !.vectorString = text,
                                                 !.entered = text]))

SpecJunk == InitParsed /\ [][ParseJunk]_vars

(***************************************************************************)
(* The live fact generator: page loads, clicks on Generate, responses of   *)
(* the worker, the clock                                                   *)
(***************************************************************************)
recordRequest(rateLimitData, t) == [rateLimitData EXCEPT !.requests = Append(@, t)]

saveRateLimitData(rateLimitData) == [present |-> TRUE, requests |-> rateLimitData.requests]

\* init() of a page opened or reloaded in tab t
OpenPage ==
    \E t \in Tabs :
        /\ state' = [state EXCEPT ![t] =
                        [isGenerating |-> FALSE, currentStep |-> 0,
                         rateLimitData |-> loadRateLimitData(localStorage.rateLimit, now)]]
        /\ elements' = [elements EXCEPT ![t] =
                           [generateBtnDisabled |-> FALSE,
                            rateLimitInfo |->
                                updateRateLimitDisplay(
                                    loadRateLimitData(localStorage.rateLimit, now), now),
                            errorContainer |-> FALSE,
                            errorMessage |-> NoError,
                            results |-> loadLastFact(localStorage.lastFact, now)]]
        /\ awaiting' = [awaiting EXCEPT ![t] = NoResponse]
        /\ UNCHANGED <<now, localStorage, rateLimitStore, admitted>>
        /\ UNCHANGED <<pageVars, widgetVars, scriptVars>>

\* callAPI(path) of tab t: the worker runs checkRateLimit and answers
Fetch(t, path) ==
    \E outcome \in outcomes(path) :
        /\ awaiting' = [awaiting EXCEPT ![t] =
                           handleRequest(path, checkRateLimit(rateLimitStore, now).allowed,
                                         outcome)]
        /\ rateLimitStore' = checkRateLimit(rateLimitStore, now).records

\* handleGenerate up to its first await
HandleGenerate ==
    \E t \in Tabs :
        /\ ~state[t].rateLimitData.isNull
        /\ ~elements[t].generateBtnDisabled
        /\ IF isRateLimited(state[t].rateLimitData, now)
           THEN /\ elements' =
                      [elements EXCEPT
                          ![t].errorContainer = TRUE,
                          ![t].errorMessage =
                              [text |-> "You've reached the rate limit",
                               minutes |-> ceilMinutes(
                                   getTimeUntilReset(state[t].rateLimitData, now))]]
                /\ UNCHANGED <<localStorage, state, awaiting, rateLimitStore, admitted>>
           ELSE /\ Len(admitted) < MaxAdmitted
                /\ state' = [state EXCEPT
                                ![t].isGenerating = TRUE,
                                ![t].rateLimitData = recordRequest(@, now)]
                /\ localStorage' =
                      [localStorage EXCEPT
                          !.rateLimit = saveRateLimitData(
                                            recordRequest(state[t].rateLimitData, now))]
                /\ elements' =
                      [elements EXCEPT
                          ![t].generateBtnDisabled = TRUE,
                          ![t].errorContainer = FALSE,
                          ![t].errorMessage = NoError,
                          ![t].results = FALSE,
                          ![t].rateLimitInfo =
                              updateRateLimitDisplay(
                                  recordRequest(state[t].rateLimitData, now), now)]
                /\ admitted' = Append(admitted, now)
                /\ Fetch(t, "/generate-fact")
        /\ UNCHANGED now
        /\ UNCHANGED <<pageVars, widgetVars, scriptVars>>

\* handleGenerate from showError or displayResults to the end of finally
Ended(t, message, shown) ==
    /\ state' = [state EXCEPT ![t].isGenerating = FALSE]
    /\ elements' = [elements EXCEPT
                       ![t].generateBtnDisabled = FALSE,
                       ![t].errorContainer = (message # ""),
                       ![t].errorMessage = [text |-> message, minutes |-> 0],
                       ![t].results = shown]
    /\ localStorage' = IF shown THEN [localStorage EXCEPT !.lastFact = savedFact]
                       ELSE localStorage
    /\ awaiting' = [awaiting EXCEPT ![t] = NoResponse]
    /\ UNCHANGED rateLimitStore

\* handleGenerate from the response it awaits to its next await or its end
Response ==
    \E t \in Tabs :
        /\ awaiting[t].path # ""
        /\ IF awaiting[t].status # 200
           THEN Ended(t, apiError(awaiting[t]), FALSE)
           ELSE IF awaiting[t].path = "/generate-fact"
           THEN Fetch(t, "/verify-fact") /\ UNCHANGED <<state, elements, localStorage>>
           ELSE IF awaiting[t].path = "/verify-fact"
           THEN IF ~awaiting[t].isTrue
                THEN Ended(t, "Fact-check failed", FALSE)
                ELSE Fetch(t, "/generate-image")
                     /\ UNCHANGED <<state, elements, localStorage>>
           ELSE Ended(t, "", TRUE)
        /\ UNCHANGED <<now, admitted>>
        /\ UNCHANGED <<pageVars, widgetVars, scriptVars>>

Tick ==
    /\ now < ClockStart + MaxTicks * TickMs
    /\ now' = now + TickMs
    /\ UNCHANGED <<localStorage, state, elements, awaiting, rateLimitStore, admitted>>
    /\ UNCHANGED <<pageVars, widgetVars, scriptVars>>

NextLimiter == OpenPage \/ HandleGenerate \/ Response \/ Tick

SpecLimiter == Init /\ [][NextLimiter]_vars

(***************************************************************************)
(* The cached fact widget: one page session over what earlier sessions     *)
(* left in localStorage                                                    *)
(***************************************************************************)
\* data/facts.json with n facts
factList(n) == [i \in 1..n |-> i]

storedCaches ==
    {EmptyStorage.cache} \cup
    {[present |-> TRUE, facts |-> factList(n), timestamp |-> ClockStart] : n \in 1..MaxFacts}

InitWidget ==
    /\ PageIs(initializeDefaultMetrics(Blank))
    /\ lastOp = "load"
    /\ nOps = 0
    /\ SiteIdle
    /\ \E ids \in storedHistories : \E cached \in storedCaches :
          localStorage = [EmptyStorage EXCEPT
                             !.history = [present |-> ids # <<>>, ids |-> ids],
                             !.cache = cached]

\* displayRandomFact with facts loaded: getRandomFact, saveHistory and the
\* start of the simulated progress
DisplayRandomFact(store, list, ids, pending) ==
    \E randomIndex \in 1..Len(factsToChooseFrom(list, ids)) :
        /\ history' = getRandomFact(list, ids, randomIndex).history
        /\ localStorage' =
              [store EXCEPT !.history =
                  [present |-> TRUE,
                   ids |-> getRandomFact(list, ids, randomIndex).history]]
        /\ currentFact' = getRandomFact(list, ids, randomIndex).fact
        /\ factContainer' = NoFact
        /\ pendingFacts' = Append(pending, getRandomFact(list, ids, randomIndex).fact)

\* loadHistory()
loadHistory(stored) == IF stored.present THEN stored.ids ELSE <<>>

\* init() once loadData has state.data: the first displayRandomFact
InitWith(store, list) ==
    /\ data' = [isNull |-> FALSE, facts |-> list]
    /\ widgetError' = ""
    /\ IF Len(list) > 0
       THEN DisplayRandomFact(store, list, loadHistory(store.history), <<>>)
       ELSE /\ history' = loadHistory(store.history)
            /\ localStorage' = store
            /\ UNCHANGED <<currentFact, factContainer, pendingFacts>>

\* init(): loadHistory, loadData from the cache or from data/facts.json
\* (n facts, or a failed fetch), then the first fact
WidgetInit ==
    /\ data.isNull /\ widgetError = ""
    /\ IF loadFromCache(localStorage.cache, now)
       THEN InitWith(localStorage, localStorage.cache.facts)
       ELSE \/ \E n \in 0..MaxFacts :
                 InitWith([localStorage EXCEPT
                              !.cache = [present |-> TRUE, facts |-> factList(n),
                                         timestamp |-> now]],
                          factList(n))
            \/ /\ widgetError' = "Unable to load science facts"
               /\ history' = loadHistory(localStorage.history)
               /\ localStorage' = [localStorage EXCEPT !.cache = EmptyStorage.cache]
               /\ UNCHANGED <<data, currentFact, factContainer, pendingFacts>>
    /\ UNCHANGED <<now, state, elements, awaiting, rateLimitStore, admitted>>
    /\ UNCHANGED <<pageVars, scriptVars>>

\* a click on the button (or Space, or R): displayRandomFact
NextFact ==
    /\ ~data.isNull \/ widgetError # ""
    /\ Len(pendingFacts) < MaxPending
    /\ IF data.isNull \/ Len(data.facts) = 0
       THEN /\ widgetError' = "No facts available"
            /\ UNCHANGED <<localStorage, history, currentFact, factContainer,
                           pendingFacts>>
       ELSE /\ DisplayRandomFact(localStorage, data.facts, history, pendingFacts)
            /\ UNCHANGED widgetError
    /\ UNCHANGED <<data, now, state, elements, awaiting, rateLimitStore, admitted>>
    /\ UNCHANGED <<pageVars, scriptVars>>

\* the end of a simulated progress: displayFact(fact)
DisplayFact ==
    /\ pendingFacts # <<>>
    /\ factContainer' = Head(pendingFacts)
    /\ pendingFacts' = Tail(pendingFacts)
    /\ widgetError' = ""
    /\ UNCHANGED <<data, history, currentFact, limiterVars>>
    /\ UNCHANGED <<pageVars, scriptVars>>

NextWidget == WidgetInit \/ NextFact \/ DisplayFact

SpecWidget == InitWidget /\ [][NextWidget]_vars

\* Iterate without the guard on an empty facts array before the write
IterateWritesEmpty(list, failures) ==
    /\ facts' = list
    /\ consecutiveFailures' = failures
    /\ IF /\ failures < MAX_CONSECUTIVE_FAILURES
          /\ Len(list) < FACT_COUNT
          /\ attempts < maxAttempts
       THEN /\ attempts' = attempts + 1
            /\ pc' = "generateFact"
            /\ attempt' = 1
            /\ callLog' = <<>>
            /\ entryCalls' = <<"generateFact">>
            /\ UNCHANGED <<outputFile, exitCode>>
       ELSE /\ pc' = "exit"
            /\ outputFile' = [written |-> TRUE, facts |-> list]
            /\ exitCode' = IF Len(list) = 0 THEN 1 ELSE 0
            /\ UNCHANGED <<attempt, attempts, callLog, entryCalls>>

\* Iterate with the break on more than MAX_CONSECUTIVE_FAILURES failures
IterateSixFailures(list, failures) ==
    /\ facts' = list
    /\ consecutiveFailures' = failures
    /\ IF /\ failures <= MAX_CONSECUTIVE_FAILURES
          /\ Len(list) < FACT_COUNT
          /\ attempts < maxAttempts
       THEN /\ attempts' = attempts + 1
            /\ pc' = "generateFact"
            /\ attempt' = 1
            /\ callLog' = <<>>
            /\ entryCalls' = <<"generateFact">>
            /\ UNCHANGED <<outputFile, exitCode>>
       ELSE /\ pc' = "exit"
            /\ outputFile' = IF Len(list) = 0 THEN outputFile
                             ELSE [written |-> TRUE, facts |-> list]
            /\ exitCode' = IF Len(list) = 0 THEN 1 ELSE 0
            /\ UNCHANGED <<attempt, attempts, callLog, entryCalls>>

(***************************************************************************)
(* The fact generation script: main, generateFactEntry and callClaude,     *)
(* one step per API attempt and one per return to the caller               *)
(***************************************************************************)
\* main from the end of its try/catch, with facts = list and
\* consecutiveFailures = failures: the break, the loop condition, then the
\* next generateFactEntry or the end of main
Iterate(list, failures) ==
    /\ facts' = list
    /\ consecutiveFailures' = failures
    /\ IF /\ failures < MAX_CONSECUTIVE_FAILURES
          /\ Len(list) < FACT_COUNT
          /\ attempts < maxAttempts
       THEN /\ attempts' = attempts + 1
            /\ pc' = "generateFact"
            /\ attempt' = 1
            /\ callLog' = <<>>
            /\ entryCalls' = <<"generateFact">>
            /\ UNCHANGED <<outputFile, exitCode>>
       ELSE /\ pc' = "exit"
            /\ outputFile' = IF Len(list) = 0 THEN outputFile
                             ELSE [written |-> TRUE, facts |-> list]
            /\ exitCode' = IF Len(list) = 0 THEN 1 ELSE 0
            /\ UNCHANGED <<attempt, attempts, callLog, entryCalls>>

\* the next caller of callClaude in generateFactEntry
Call(caller) ==
    /\ pc' = caller
    /\ attempt' = 1
    /\ callLog' = <<>>
    /\ entryCalls' = Append(entryCalls, caller)
    /\ UNCHANGED <<facts, attempts, consecutiveFailures, outputFile, exitCode>>

\* main's catch for a model or access error: process.exit(1)
Fatal ==
    /\ pc' = "exit"
    /\ exitCode' = 1
    /\ consecutiveFailures' = consecutiveFailures + 1
    /\ UNCHANGED <<attempt, attempts, callLog, entryCalls, verification, facts,
                   outputFile>>

\* node generate-facts.js
Main ==
    /\ pc = "main"
    /\ Iterate(<<>>, 0)
    /\ UNCHANGED verification
    /\ UNCHANGED <<pageVars, limiterVars, widgetVars>>

\* one API attempt of the running callClaude
Attempt ==
    /\ pc \in {callers[i] : i \in 1..Len(callers)}
    /\ attempt >= 1 /\ attempt <= MAX_RETRIES
    /\ \E outcome \in {"ok", "error", "not_found", "empty"} :
          /\ callLog' = callClaude(callLog, attempt, outcome).log
          /\ attempt' = callClaude(callLog, attempt, outcome).attempt
    /\ UNCHANGED <<pc, entryCalls, verification, facts, attempts, consecutiveFailures,
                   outputFile, exitCode>>
    /\ UNCHANGED <<pageVars, limiterVars, widgetVars>>

\* generateFactEntry from the return of callClaude to its next call, or to
\* its own return or throw and main's handling of it; the text the call
\* returned is read here
Proceed ==
    /\ pc \in {callers[i] : i \in 1..Len(callers)}
    /\ attempt = 0
    /\ IF callLog[Len(callLog)].event = "throw"
       THEN IF callLog[Len(callLog)].outcome = "not_found"
            THEN Fatal
            ELSE Iterate(facts, consecutiveFailures + 1) /\ UNCHANGED verification
       ELSE IF pc = "generateFact"
       THEN \E similar \in (IF facts = <<>> THEN {FALSE} ELSE BOOLEAN) :
               IF similar
               THEN Iterate(facts, consecutiveFailures + 1) /\ UNCHANGED verification
               ELSE Call("verifyFact") /\ verification' = NoVerification
       ELSE IF pc = "verifyFact"
       THEN \E response \in verdictResponses :
               /\ verification' = verifyFact(response)
               /\ IF ~verifyFact(response).isTrue
                  THEN Iterate(facts, consecutiveFailures + 1)
                  ELSE Call("generateImageDescription")
       ELSE IF pc = "generateImageDescription"
       THEN Call("generateSVG") /\ UNCHANGED verification
       ELSE /\ UNCHANGED verification
            /\ \E complete \in BOOLEAN :
                  IF complete
                  THEN Iterate(Append(facts, [id |-> Len(facts) + 1,
                                              verified |-> verification.isTrue]), 0)
                  ELSE Iterate(facts, consecutiveFailures + 1)
    /\ UNCHANGED <<pageVars, limiterVars, widgetVars>>

NextScript == Main \/ Attempt \/ Proceed

SpecScript == Init /\ [][NextScript]_vars

\* every API call returns or throws, and node runs what awaits it
SpecScriptFair ==
    SpecScript /\ WF_vars(Main) /\ WF_vars(Attempt) /\ WF_vars(Proceed)

(***************************************************************************)
(* Properties                                                              *)
(***************************************************************************)
\* metrics binds every required key of the shape to one of its legal values
LegalMetricSet(version, metrics) ==
    \A key \in requiredKeys(version) :
        key \in DOMAIN metrics /\ metrics[key] \in legalValues(version, key)

otherVersion(version) == IF version = 3 THEN 4 ELSE 3

\* C1: in every state reachable from page load, currentMetrics holds every
\* required key of the shape of currentVersion, each with a legal value.
C1_MetricsCompleteAndLegal == LegalMetricSet(currentVersion, currentMetrics)

\* C2: a parseVector call that reports an error leaves currentVersion and
\* currentMetrics as they were before the call.
C2_ParseErrorKeepsState ==
    [][(lastOp' = "parseVector" /\ alertMsg' # NoAlert)
         => (currentVersion' = currentVersion /\ currentMetrics' = currentMetrics)]_vars

\* what the parse loop extracts from the text entered
enteredMetrics == parseSegments(split(trim(entered), "/"), 2, EmptyObject)
enteredVersion == prefixVersion(trim(entered))

\* the text entered names a version and every required key of it, one of
\* them with a value outside its legal set
enteredIllegalValue ==
    /\ enteredVersion # 0
    /\ \A key \in requiredKeys(enteredVersion) : Truthy(Get(enteredMetrics, key))
    /\ ~LegalMetricSet(enteredVersion, enteredMetrics)

\* C3: parseVector reports an error for, and does not install the metrics
\* of, a vector that has every required key but an illegal value for one.
C3_IllegalValueRejected ==
    (lastOp = "parseVector" /\ enteredIllegalValue)
        => (alertMsg # NoAlert /\ currentMetrics # enteredMetrics)

C5_ConvertInstallsConversion ==
    [][(lastOp' = "convertVector" /\ LegalMetricSet(currentVersion, currentMetrics))
         => /\ currentVersion' = otherVersion(currentVersion)
            /\ currentMetrics' =
                  convertMetrics(currentVersion, currentMetrics).convertedMetrics]_vars

\* C6: right after convertVector completes, the conversion-result panel is
\* visible.
C6_PanelVisibleAfterConvert ==
    lastOp = "convertVector" => conversionResult

\* C7: on every legal metric set the conversion yields exactly the required
\* keys of the target shape, each with a value legal in the target version.
C7_ConversionCompleteLegal ==
    lastOp = "convertMetrics"
        => /\ DOMAIN convertedMetrics = requiredKeys(otherVersion(currentVersion))
           /\ LegalMetricSet(otherVersion(currentVersion), convertedMetrics)

\* a v4 set with passive interaction and subsequent impact was converted
C7_Witness ==
    /\ lastOp = "convertMetrics"
    /\ currentVersion = 4
    /\ currentMetrics[kUI] = vP /\ currentMetrics[kSA] = vH
    /\ convertedMetrics[kUI] = vR /\ convertedMetrics[kS] = vC

\* C8: on every legal metric set the score is a number s with 0 <= s <= 10
\* that is a whole number of tenths.
C8_ScoreBounds ==
    lastOp = "calculateScore"
        => /\ ~threw
           /\ ~scoreValue.nan
           /\ numLE(Whole(0), scoreValue)
           /\ numLE(scoreValue, Whole(10))
           /\ numMul(scoreValue, Whole(10)).e = 0

\* a v3 set with changed scope reaches the cap of 10
C8_Witness ==
    /\ lastOp = "calculateScore"
    /\ currentVersion = 3
    /\ currentMetrics[kS] = vC
    /\ scoreValue = Whole(10)

allNone(metrics) == metrics[kC] = vN /\ metrics[kI] = vN /\ metrics[kA] = vN

\* C9: on every legal v3 metric set the score is 0.0 and the severity None
\* exactly when C = I = A = N.
C9_ZeroIffNoImpact ==
    (lastOp = "calculateScore" /\ currentVersion = 3)
        => /\ isZero(scoreValue) <=> allNone(currentMetrics)
           /\ severityDisplay = "None" <=> allNone(currentMetrics)
           /\ scoreDisplay = <<"0", ".", "0">> <=> allNone(currentMetrics)

\* the vector AV:N/AC:L/PR:N/UI:N/S:U/C:N/I:N/A:N was scored 0.0
C9_Witness ==
    /\ lastOp = "calculateScore"
    /\ currentVersion = 3
    /\ currentMetrics = defaultV3
    /\ scoreDisplay = <<"0", ".", "0">>
    /\ severityDisplay = "None"

\* C10: parsing CVSS:3.1/AV:N/AC:L/PR:N/UI:N/S:U/C:H/I:H/A:H shows score
\* 9.8 and severity Critical.
C10_Scenario1 ==
    (lastOp = "parseVector" /\ entered = scenario1)
        => /\ scoreValue = Dec(9800, 1)
           /\ scoreDisplay = <<"9", ".", "8">>
           /\ severityDisplay = "Critical"

\* scenario 1 was parsed on a page that had shown version 4 before
C10_Witness ==
    /\ lastOp = "parseVector"
    /\ entered = scenario1
    /\ currentVersion = 3
    /\ \E b \in selected : b[1] = 4

\* the whole number of tenths in a score that is a multiple of 0.1
tenthsOf(x) == natToInt(numMul(x, Whole(10)).mag)

\* the label the severity scale gives to t tenths
labelOf(t) ==
    IF t = 0 THEN "None"
    ELSE IF t < 40 THEN "Low"
    ELSE IF t < 70 THEN "Medium"
    ELSE IF t < 90 THEN "High"
    ELSE "Critical"

severityRank(label) ==
    CASE label = "None" -> 0
      [] label = "Low" -> 1
      [] label = "Medium" -> 2
      [] label = "High" -> 3
      [] label = "Critical" -> 4
      [] OTHER -> 5

\* C11: on every score in tenths from 0.0 to 10.0 getSeverity returns None
\* iff the score is 0, Low iff 0 < score < 4, Medium iff 4 <= score < 7,
\* High iff 7 <= score < 9 and Critical iff score >= 9, and no lower score
\* gets a higher label.
C11_SeverityExact ==
    lastOp = "getSeverity"
        => /\ severityDisplay = labelOf(tenthsOf(scoreValue))
           /\ \A t \in 0..tenthsOf(scoreValue) :
                 severityRank(getSeverity(Tenths(t))) <= severityRank(severityDisplay)

\* the boundary score 4.0 was labelled Medium
C11_Witness ==
    /\ lastOp = "getSeverity"
    /\ scoreValue = Whole(4)
    /\ severityDisplay = "Medium"

\* x is a multiple of 0.1
wholeTenths(x) == numMul(x, Whole(10)).e = 0

\* r is the least multiple of 0.1 that is >= x, for x in [0, 10]
leastTenthAbove(x, r) ==
    /\ numLE(Whole(0), x) /\ numLE(x, Whole(10))
    /\ wholeTenths(r)
    /\ numLE(x, r)
    /\ numLT(numSub(r, x), Dec(100, 1))
    /\ wholeTenths(x) => r = x

\* C12: for every value x the scoring formulas hand to roundUp, roundUp(x)
\* is the least multiple of 0.1 that is >= x: roundUp(x) >= x,
\* roundUp(x) - x < 0.1, and roundUp(x) = x when x is a multiple of 0.1.
C12_RoundUpLeast ==
    lastOp = "calculateScore"
        => leastTenthAbove(baseScore(currentVersion, currentMetrics), scoreValue)

\* a base score strictly between 9.7 and 9.8 was rounded up to 9.8
C12_Witness ==
    /\ lastOp = "calculateScore"
    /\ scoreValue = Dec(9800, 1)
    /\ ~wholeTenths(baseScore(currentVersion, currentMetrics))
    /\ numLT(Dec(9700, 1), baseScore(currentVersion, currentMetrics))

\* a base score that is a multiple of 0.1 above zero was returned as it is
C12_WitnessExact ==
    /\ lastOp = "calculateScore"
    /\ ~isZero(scoreValue)
    /\ baseScore(currentVersion, currentMetrics) = scoreValue

convertedFromV3 == lastOp = "convertMetrics" /\ currentVersion = 3
convertedFromV4 == lastOp = "convertMetrics" /\ currentVersion = 4

\* C13: the v3-to-v4 mapping sets VC, VI, VA to the source C, I, A, and
\* SC, SI, SA to N, N, N when the source Scope is U and to the source
\* C, I, A when it is C.
C13_ImpactSplit ==
    convertedFromV3
        => /\ convertedMetrics[kVC] = currentMetrics[kC]
           /\ convertedMetrics[kVI] = currentMetrics[kI]
           /\ convertedMetrics[kVA] = currentMetrics[kA]
           /\ currentMetrics[kS] = vU
                => /\ convertedMetrics[kSC] = vN
                   /\ convertedMetrics[kSI] = vN
                   /\ convertedMetrics[kSA] = vN
           /\ currentMetrics[kS] = vC
                => /\ convertedMetrics[kSC] = currentMetrics[kC]
                   /\ convertedMetrics[kSI] = currentMetrics[kI]
                   /\ convertedMetrics[kSA] = currentMetrics[kA]

\* a changed-scope set with C:H, I:L, A:N was converted
C13_Witness ==
    /\ convertedFromV3
    /\ currentMetrics[kS] = vC
    /\ currentMetrics[kC] = vH /\ currentMetrics[kI] = vL /\ currentMetrics[kA] = vN
    /\ convertedMetrics[kSC] = vH /\ convertedMetrics[kSI] = vL
    /\ convertedMetrics[kSA] = vN /\ convertedMetrics[kVC] = vH

\* C14: the v3-to-v4 mapping copies AV, AC and PR, sets AT to N, and maps
\* UI N to N and UI R to P.
C14_ExploitabilityV3toV4 ==
    convertedFromV3
        => /\ convertedMetrics[kAV] = currentMetrics[kAV]
           /\ convertedMetrics[kAC] = currentMetrics[kAC]
           /\ convertedMetrics[kPR] = currentMetrics[kPR]
           /\ convertedMetrics[kAT] = vN
           /\ currentMetrics[kUI] = vN => convertedMetrics[kUI] = vN
           /\ currentMetrics[kUI] = vR => convertedMetrics[kUI] = vP

\* a set with AV:P, AC:H, PR:L, UI:R was converted
C14_Witness ==
    /\ convertedFromV3
    /\ currentMetrics[kAV] = vP /\ currentMetrics[kAC] = vH
    /\ currentMetrics[kPR] = vL /\ currentMetrics[kUI] = vR
    /\ convertedMetrics[kUI] = vP /\ convertedMetrics[kAV] = vP

\* the notes of a list
notes(warnings) == {warnings[i] : i \in 1..Len(warnings)}

\* C15: the notes of a v3-to-v4 conversion are the AT note always, the UI
\* note iff the source UI is not N and the Scope note iff the source Scope
\* is C, each once: 1 + [UI # N] + [S = C] notes.
C15_NotesV3toV4 ==
    convertedFromV3
        => /\ notes(conversionWarning) =
                {NoteATv3}
                \cup (IF currentMetrics[kUI] # vN THEN {NoteUIv3} ELSE {})
                \cup (IF currentMetrics[kS] = vC THEN {NoteScopev3} ELSE {})
           /\ Len(conversionWarning) = Cardinality(notes(conversionWarning))

\* scenario 1 (UI:N, S:U, C:H, I:H, A:H) was converted with the AT note alone
C15_Witness ==
    /\ convertedFromV3
    /\ currentMetrics = [defaultV3 EXCEPT ![kC] = vH, ![kI] = vH, ![kA] = vH]
    /\ conversionWarning = <<NoteATv3>>

\* a set with UI:R and S:C was converted with all three notes
C15_WitnessAll ==
    /\ convertedFromV3
    /\ currentMetrics[kUI] = vR /\ currentMetrics[kS] = vC
    /\ Len(conversionWarning) = 3

\* some of SC, SI, SA of the metrics is not N
subsequentImpact(metrics) ==
    metrics[kSC] # vN \/ metrics[kSI] # vN \/ metrics[kSA] # vN

\* C16: the v4-to-v3 mapping sets Scope to C iff at least one of SC, SI,
\* SA differs from N, and to U otherwise.
C16_ScopeFromSubsequent ==
    convertedFromV4
        => convertedMetrics[kS] = (IF subsequentImpact(currentMetrics) THEN vC ELSE vU)

\* a set whose only subsequent impact is SA:L was converted to Scope C
C16_Witness ==
    /\ convertedFromV4
    /\ currentMetrics[kSC] = vN /\ currentMetrics[kSI] = vN /\ currentMetrics[kSA] = vL
    /\ convertedMetrics[kS] = vC

impactValues == {vN, vL, vH}

\* position under N < L < H
impactRank(value) == IF value = vN THEN 0 ELSE IF value = vL THEN 1 ELSE 2

\* m is the greater of a and b under N < L < H
greaterImpact(m, a, b) ==
    /\ m \in {a, b}
    /\ impactRank(m) >= impactRank(a)
    /\ impactRank(m) >= impactRank(b)

\* C17: the v4-to-v3 mapping sets C = max(VC, SC), I = max(VI, SI) and
\* A = max(VA, SA) under N < L < H; maxImpact is commutative, idempotent
\* and returns one of its two arguments.
C17_ImpactMerge ==
    convertedFromV4
        => /\ greaterImpact(convertedMetrics[kC], currentMetrics[kVC], currentMetrics[kSC])
           /\ greaterImpact(convertedMetrics[kI], currentMetrics[kVI], currentMetrics[kSI])
           /\ greaterImpact(convertedMetrics[kA], currentMetrics[kVA], currentMetrics[kSA])
           /\ \A a \in impactValues, b \in impactValues :
                 /\ maxImpact(a, b) = maxImpact(b, a)
                 /\ maxImpact(a, a) = a
                 /\ maxImpact(a, b) \in {a, b}

\* a set with VC:L, SC:H, VI:H, SI:L, VA:N, SA:N was merged to C:H, I:H, A:N
C17_Witness ==
    /\ convertedFromV4
    /\ currentMetrics[kVC] = vL /\ currentMetrics[kSC] = vH
    /\ currentMetrics[kVI] = vH /\ currentMetrics[kSI] = vL
    /\ currentMetrics[kVA] = vN /\ currentMetrics[kSA] = vN
    /\ convertedMetrics[kC] = vH /\ convertedMetrics[kI] = vH /\ convertedMetrics[kA] = vN

\* C18: the v4-to-v3 mapping copies AV, AC and PR, produces no AT key, and
\* maps UI N to N and UI P or A to R.
C18_ExploitabilityV4toV3 ==
    convertedFromV4
        => /\ convertedMetrics[kAV] = currentMetrics[kAV]
           /\ convertedMetrics[kAC] = currentMetrics[kAC]
           /\ convertedMetrics[kPR] = currentMetrics[kPR]
           /\ kAT \notin DOMAIN convertedMetrics
           /\ convertedMetrics[kUI] = (IF currentMetrics[kUI] = vN THEN vN ELSE vR)

\* a set with AT:P and UI:A was converted
C18_Witness ==
    /\ convertedFromV4
    /\ currentMetrics[kAT] = vP /\ currentMetrics[kUI] = vA
    /\ currentMetrics[kAV] = vL
    /\ convertedMetrics[kUI] = vR /\ convertedMetrics[kAV] = vL

\* C19: the notes of a v4-to-v3 conversion are the AT-dropped note and the
\* impact-merged note always, the UI note iff the source UI is not N and
\* the Scope-changed note iff some of SC, SI, SA is not N, each once; a
\* source with UI:N, SC:H, VC:N gives Scope C, C:H and three notes.
C19_NotesV4toV3 ==
    convertedFromV4
        => /\ notes(conversionWarning) =
                {NoteATv4, NoteImpactv4}
                \cup (IF currentMetrics[kUI] # vN THEN {NoteUIv4} ELSE {})
                \cup (IF subsequentImpact(currentMetrics) THEN {NoteScopev4} ELSE {})
           /\ Len(conversionWarning) = Cardinality(notes(conversionWarning))
           /\ (currentMetrics[kUI] = vN /\ currentMetrics[kSC] = vH /\ currentMetrics[kVC] = vN)
                => /\ convertedMetrics[kS] = vC
                   /\ convertedMetrics[kC] = vH
                   /\ Len(conversionWarning) = 3

\* a set with UI:N, SC:H, VC:N was converted with three notes
C19_Witness ==
    /\ convertedFromV4
    /\ currentMetrics[kUI] = vN /\ currentMetrics[kSC] = vH /\ currentMetrics[kVC] = vN
    /\ conversionWarning = <<NoteScopev4, NoteATv4, NoteImpactv4>>

\* text begins with one of the three literal prefixes
knownPrefix(text) ==
    \E p \in {prefix30, prefix31, prefix40} :
        Len(text) >= Len(p) /\ SubSeq(text, 1, Len(p)) = p

\* C20: parseVector on a non-empty input that does not start with CVSS:3.0,
\* CVSS:3.1 or CVSS:4.0 reports the invalid-format error, not a missing
\* metric, and leaves the version and the metrics as they were.
C20_InvalidFormat ==
    [][(lastOp' = "parseVector" /\ trim(entered') # <<>> /\ ~knownPrefix(trim(entered')))
         => /\ alertMsg' =
                 [text |-> "Invalid CVSS vector string. Must start with CVSS:3.0, CVSS:3.1, or CVSS:4.0",
                  metric |-> <<>>]
            /\ currentMetrics' = currentMetrics
            /\ currentVersion' = currentVersion]_vars

\* CVSS:2.0/AV:N/AC:L was refused on a page showing version 4
C20_Witness ==
    /\ lastOp = "parseVector"
    /\ entered = version20
    /\ currentVersion = 4
    /\ currentMetrics = defaultV4
    /\ alertMsg.text = "Invalid CVSS vector string. Must start with CVSS:3.0, CVSS:3.1, or CVSS:4.0"

\* the canonical key order of each shape
canonicalOrder(version) ==
    IF version = 3
    THEN <<kAV, kAC, kPR, kUI, kS, kC, kI, kA>>
    ELSE <<kAV, kAC, kAT, kPR, kUI, kVC, kVI, kVA, kSC, kSI, kSA>>

\* the positions in the canonical order whose key the text entered lacks
absentPositions ==
    {i \in 1..Len(canonicalOrder(enteredVersion)) :
        ~Truthy(Get(enteredMetrics, canonicalOrder(enteredVersion)[i]))}

\* C21: when a vector with a recognised prefix lacks required keys of its
\* shape, parseVector reports one missing-metric error and names the first
\* absent key in the canonical order of that shape.
C21_FirstMissingNamed ==
    (lastOp = "parseVector" /\ knownPrefix(trim(entered)) /\ absentPositions # {})
        => /\ alertMsg.text = "Missing required metric: "
           /\ \E i \in absentPositions :
                 /\ alertMsg.metric = canonicalOrder(enteredVersion)[i]
                 /\ \A j \in absentPositions : i <= j

\* a 3.1 vector without S and A was refused naming S
C21_Witness ==
    /\ lastOp = "parseVector"
    /\ entered = missing31
    /\ alertMsg = [text |-> "Missing required metric: ", metric |-> kS]

\* the "KEY:value" pieces of a vector string after its tag
vectorPieces(vector) == Tail(split(vector, "/"))

\* C22: after a successful parse the current vector shown is canonical for
\* the parsed shape: the tag CVSS:3.1 (also for an input tagged CVSS:3.0) or
\* CVSS:4.0, then exactly the required keys in the fixed order of the shape,
\* each with the value the input gave it, whatever the order of the input.
C22_CanonicalVector ==
    (lastOp = "parseVector" /\ alertMsg = NoAlert)
        => /\ split(currentVector, "/")[1] = (IF enteredVersion = 3 THEN prefix31 ELSE prefix40)
           /\ Len(vectorPieces(currentVector)) = Len(canonicalOrder(enteredVersion))
           /\ \A i \in 1..Len(canonicalOrder(enteredVersion)) :
                 vectorPieces(currentVector)[i] =
                    canonicalOrder(enteredVersion)[i] \o <<":">>
                    \o Get(enteredMetrics, canonicalOrder(enteredVersion)[i])

\* the 3.0 vector with its segments reversed was shown in canonical order
C22_Witness ==
    /\ lastOp = "parseVector"
    /\ entered = reordered30
    /\ currentVector =
          prefix31 \o seg(kAV, vA) \o seg(kAC, vH) \o seg(kPR, vL) \o seg(kUI, vR) \o
          seg(kS, vC) \o seg(kC, vH) \o seg(kI, vN) \o seg(kA, vL)

\* C23: putting segments that have no ':', an empty key or an empty value
\* into a complete legal vector does not change what parseVector yields: it
\* succeeds with the same version and the same metric values.
C23_JunkSkipped ==
    [][(lastOp' = "parseVector" /\ entered' # vectorString)
         => /\ alertMsg' = NoAlert
            /\ ~threw'
            /\ currentVersion' = currentVersion
            /\ currentMetrics' = currentMetrics
            /\ currentVector' = currentVector]_vars

\* scenario 3 with '/AV:' and '/:X' put in after its AV segment was parsed
C23_Witness ==
    /\ nOps = 2
    /\ lastOp = "parseVector"
    /\ entered =
          prefix31 \o seg(kAV, vL) \o <<"/","A","V",":">> \o <<"/",":","X">> \o
          seg(kAC, vH) \o seg(kPR, vH) \o seg(kUI, vR) \o
          seg(kS, vC) \o seg(kC, vL) \o seg(kI, vL) \o seg(kA, vL)
    /\ alertMsg = NoAlert
    /\ currentMetrics[kAV] = vL

\* the last handler ran to its end: no exception, and no alert from a parse
handlerCompleted == ~threw /\ (lastOp = "parseVector" => alertMsg = NoAlert)

\* the score and severity fields show the score r
scoreShown(r) ==
    /\ ~r.threw
    /\ scoreValue = r.value
    /\ scoreDisplay = toFixed1(r.value)
    /\ severityDisplay = getSeverity(r.value)

\* C24: after every handler that completes (page load, selectMetric,
\* switchVersion, a successful parseVector, convertVector, clearAll) the
\* current vector shown is generateVector() of the current version and
\* metrics, and the score and severity shown are calculateScore() and
\* getSeverity(calculateScore()) of that same state.
C24_DisplayConsistent ==
    handlerCompleted
        => /\ currentVector = generateVector(currentVersion, currentMetrics)
           /\ scoreShown(calculateScore(currentVersion, currentMetrics))

\* C:H was selected on the v3 page and the display followed
C24_Witness ==
    /\ lastOp = "selectMetric"
    /\ currentVersion = 3
    /\ currentMetrics = [defaultV3 EXCEPT ![kC] = vH]
    /\ currentVector = generateVector(3, [defaultV3 EXCEPT ![kC] = vH])
    /\ scoreDisplay = <<"7", ".", "5">>
    /\ severityDisplay = "High"

\* a conversion completed and the display shows the state it left
C24_WitnessConvert ==
    /\ lastOp = "convertVector"
    /\ currentVersion = 4
    /\ scoreDisplay = <<"3", ".", "9">>

\* Impact of the Scope=C path: 7.52 x (ISS - 0.029) - 3.25 x (ISS - 0.02)^15
changedImpact(iss) ==
    numSub(numMul(Hundredths(752), numSub(iss, Dec(29, 1))),
           numMul(Hundredths(325), MathPow(numSub(iss, Dec(20, 1)), 15)))

\* scenario 3 by hand: ISS = 1 - 0.78^3, exploitability with AV:L 0.55,
\* AC:H 0.44, PR:H 0.50 (scope changed), UI:R 0.62, the sum scaled by 1.08
scenario3Base ==
    numMul(Hundredths(108),
           numAdd(changedImpact(numSub(Whole(1), MathPow(Hundredths(78), 3))),
                  numMul(numMul(numMul(numMul(Hundredths(822), Hundredths(55)),
                                       Hundredths(44)), Hundredths(50)), Hundredths(62))))

\* C25: CVSS:3.1/AV:L/AC:H/PR:H/UI:R/S:C/C:L/I:L/A:L is scored through the
\* Scope=C path (PR weight 0.50, the changed-scope Impact, the sum scaled
\* by 1.08) and its score lies in the Low or Medium band: 0 < score < 7.0.
C25_Scenario3 ==
    (lastOp = "parseVector" /\ entered = scenario3)
        => /\ leastTenthAbove(scenario3Base, scoreValue)
           /\ numLT(Whole(0), scoreValue)
           /\ numLT(scoreValue, Whole(7))
           /\ severityDisplay \in {"Low", "Medium"}

\* scenario 3 was parsed and scored 4.7, Medium
C25_Witness ==
    /\ lastOp = "parseVector"
    /\ entered = scenario3
    /\ currentMetrics[kS] = vC
    /\ scoreDisplay = <<"4", ".", "7">>
    /\ severityDisplay = "Medium"

\* the recordRequest() calls made from time t on and less than an hour after t
admittedWithinHour(t) ==
    {j \in 1..Len(admitted) : admitted[j] >= t /\ admitted[j] - t < 60 * 60 * 1000}

\* C26: whatever tabs are open and however often they are reloaded, the
\* client-side limiter of one browser admits at most 5 generation requests
\* in any sliding window of one hour.
C26_AtMostFivePerHour ==
    \A i \in 1..Len(admitted) : Cardinality(admittedWithinHour(admitted[i])) <= 5

\* only the first tab has ever held the page
singleTab == \A t \in Tabs \ {1} : state[t].rateLimitData.isNull

\* C27: for a single user who stays within the client-side limit, no API
\* call of an admitted generation is answered 429 by the worker.
C27_NoAdmittedCallRejected ==
    (singleTab /\ C26_AtMostFivePerHour) => \A t \in Tabs : awaiting[t].status # 429

\* C28: with at least two facts loaded, every next-fact request selects a
\* fact different from the one the previous request selected.
C28_NextFactDiffers ==
    [][(Len(data.facts) >= 2 /\ currentFact # NoFact /\ history' # history)
          => currentFact' # currentFact]_vars

\* positions of callLog that hold API attempts
attemptPositions == {i \in 1..Len(callLog) : callLog[i].event = "attempt"}

\* the attempt at position i is the k-th of its callClaude invocation
attemptNumber(i) == Cardinality({j \in attemptPositions : j <= i})

\* C29: a callClaude invocation makes at most 3 API attempts; an attempt that
\* returned a text is the last; a failed first attempt is followed by a sleep
\* of 2000 ms, a failed second by one of 4000 ms, each then by the next
\* attempt; a failed third attempt is followed by the throw of its error,
\* with no sleep.
C29_RetriesBounded ==
    /\ Cardinality(attemptPositions) <= 3
    /\ callLog # <<>> => callLog[1].event = "attempt"
    /\ \A i \in attemptPositions :
          /\ i < Len(callLog)
          /\ IF callLog[i].outcome = "ok"
             THEN callLog[i + 1].event = "return" /\ Len(callLog) = i + 1
             ELSE IF attemptNumber(i) < 3
             THEN /\ callLog[i + 1].event = "sleep"
                  /\ callLog[i + 1].ms = (IF attemptNumber(i) = 1 THEN 2000 ELSE 4000)
                  /\ i + 2 <= Len(callLog) => callLog[i + 2].event = "attempt"
             ELSE /\ callLog[i + 1].event = "throw"
                  /\ callLog[i + 1].outcome = callLog[i].outcome
                  /\ Len(callLog) = i + 1

\* three failed attempts, the sleeps between them, the throw
C29_Witness ==
    /\ Len(callLog) = 6
    /\ callLog[2].ms = 2000 /\ callLog[4].ms = 4000
    /\ callLog[5].outcome = "error" /\ callLog[6].event = "throw"
    /\ attempt = 0

\* a failed attempt, the sleep, then a successful attempt that ends the call
C29_WitnessRetried ==
    /\ Len(callLog) = 4
    /\ callLog[1].outcome = "empty" /\ callLog[2].ms = 2000
    /\ callLog[3].outcome = "ok" /\ callLog[4].event = "return"

\* the answers among verdictResponses that state the verdict TRUE
trueVerdicts ==
    {<<"V","E","R","D","I","C","T",":"," ","T","R","U","E","\n","C","O","N","F","I","D","E","N","C","E",":"," ","H","i","g","h">>,
     <<"V","e","r","d","i","c","t",":","t","r","u","e">>,
     <<"V","E","R","D","I","C","T",":"," ","u","n","s","u","r","e","\n","V","E","R","D","I","C","T",":"," ","T","R","U","E">>}

imageCalls == {"generateImageDescription", "generateSVG"}

\* C30: generateFactEntry calls for the image description and the SVG only
\* after verifyFact returned isTrue = true for the fact; after a verdict that
\* is FALSE or cannot be parsed it returns null without those calls; every
\* entry of the output has verified = true.
C30_ImagesOnlyAfterVerified ==
    /\ [](/\ \A i \in 1..Len(entryCalls) :
               entryCalls[i] \in imageCalls =>
                  /\ \E j \in 1..(i - 1) : entryCalls[j] = "verifyFact"
                  /\ verification.isTrue
                  /\ verification.response \in trueVerdicts
          /\ \A i \in 1..Len(facts) : facts[i].verified = TRUE
          /\ \A i \in 1..Len(outputFile.facts) : outputFile.facts[i].verified = TRUE)
    /\ [][(/\ pc = "verifyFact" /\ attempt = 0
           /\ callLog[Len(callLog)].event = "return"
           /\ verification'.response \notin trueVerdicts)
          => /\ ~verification'.isTrue
             /\ facts' = facts
             /\ \A i \in 1..Len(entryCalls') : entryCalls'[i] \notin imageCalls]_vars

\* an entry was written after its fact was verified and both image calls made
C30_Witness ==
    /\ outputFile.written
    /\ Len(outputFile.facts) >= 1
    /\ entryCalls = callers
    /\ verification.isTrue

\* an answer without a verdict ended generateFactEntry after two calls
C30_WitnessUnparsed ==
    /\ verification.response = <<"T","h","i","s"," ","i","s"," ","T","R","U","E",".">>
    /\ ~verification.isTrue
    /\ pc = "generateFact"
    /\ entryCalls = <<"generateFact">>
    /\ consecutiveFailures >= 1

\* C31: main makes at most 2 x FACT_COUNT calls of generateFactEntry, neither
\* its facts array nor the file it writes ever holds more than FACT_COUNT
\* entries, and the script ends.
C31_LoopBounded ==
    /\ [](/\ attempts <= 2 * FACT_COUNT
          /\ Len(facts) <= FACT_COUNT
          /\ Len(outputFile.facts) <= FACT_COUNT)
    /\ <>(pc = "exit")

\* the loop ended on its attempt limit, short of FACT_COUNT facts
C31_Witness ==
    /\ pc = "exit"
    /\ attempts = 2 * FACT_COUNT
    /\ Len(facts) < FACT_COUNT
    /\ consecutiveFailures < 5

\* the loop ended with FACT_COUNT facts
C31_WitnessFull == pc = "exit" /\ Len(outputFile.facts) = FACT_COUNT

\* C32: after clearAll, in whatever state it ran, currentMetrics is the
\* complete default metric set of currentVersion's shape, the vector shown
\* is the vector of that set and the score shown is a number.
C32_ClearAllRestoresDefaults ==
    lastOp = "clearAll" =>
        /\ currentMetrics = (IF currentVersion = 3 THEN defaultV3 ELSE defaultV4)
        /\ LegalMetricSet(currentVersion, currentMetrics)
        /\ currentVector = generateVector(currentVersion, currentMetrics)
        /\ ~threw
        /\ scoreValue # NaN

noImpactV4(metrics) ==
    \A key \in {kVC, kVI, kVA, kSC, kSI, kSA} : metrics[key] = vN

\* C33: on every legal v4 metric set the score is at least 0.1 and the
\* severity is not None, also when all six impact metrics are N.
C33_V4ScorePositive ==
    (lastOp = "calculateScore" /\ currentVersion = 4)
        => /\ ~threw
           /\ ~scoreValue.nan
           /\ numLE(Dec(100, 1), scoreValue)
           /\ severityDisplay # "None"
           /\ scoreDisplay # <<"0", ".", "0">>

\* AV:P/AC:H/AT:P/PR:H/UI:A with no impact at all scores 0.1, Low
C33_Witness ==
    /\ lastOp = "calculateScore"
    /\ currentVersion = 4
    /\ noImpactV4(currentMetrics)
    /\ currentMetrics[kAV] = vP /\ currentMetrics[kAC] = vH /\ currentMetrics[kAT] = vP
    /\ currentMetrics[kPR] = vH /\ currentMetrics[kUI] = vA
    /\ scoreDisplay = <<"0", ".", "1">>
    /\ severityDisplay = "Low"

\* the request whose leaving the window ends the refusal: the oldest still inside
windowReset(rateLimitData, t) ==
    oldest(recent(rateLimitData.requests, t, timeWindow)) + timeWindow - t

\* C34: every refusal of handleGenerate reports a wait greater than 0, the
\* time until the oldest request still inside the window leaves it.
C34_RefusalReportsWait ==
    [][\A t \in Tabs :
        (/\ elements'[t].errorMessage # elements[t].errorMessage
         /\ elements'[t].errorMessage.text = "You've reached the rate limit")
            => /\ elements'[t].errorMessage.minutes > 0
               /\ elements'[t].errorMessage.minutes =
                      ceilMinutes(windowReset(state[t].rateLimitData, now))]_vars

\* the page holds a legal v3 metric set; nothing is computed or shown yet
InitLegalV3 ==
    /\ \E metrics \in legalV3Sets :
            Loaded([Blank EXCEPT !.currentVersion = 3, !.currentMetrics = metrics])
    /\ lastOp = "load"
    /\ nOps = 0

\* the field mapping of convertVector applied to what the first conversion
\* built, in the opposite direction
ConvertBack ==
    /\ lastOp = "convertMetrics"
    /\ lastOp' = "convertBack"
    /\ Converted(convertMetrics(IF currentVersion = 3 THEN 4 ELSE 3, convertedMetrics))
    /\ UNCHANGED <<currentVersion, currentMetrics, vectorString, currentVector,
                   scoreValue, scoreDisplay, severityDisplay, convertedVector,
                   conversionResult, selected, entered, alertMsg, threw, nOps>>
    /\ UNCHANGED <<limiterVars, widgetVars, scriptVars>>

SpecRoundTrip == InitLegalV3 /\ [][ConvertMetrics \/ ConvertBack]_vars

\* C35: the v3-to-v4 mapping followed by the v4-to-v3 mapping returns the
\* v3 metric set it started from when Scope is U or one of C, I, A is not N.
C35_RoundTripV3 ==
    (/\ lastOp = "convertBack"
     /\ \/ currentMetrics[kS] = vU
        \/ currentMetrics[kC] # vN
        \/ currentMetrics[kI] # vN
        \/ currentMetrics[kA] # vN)
        => convertedMetrics = currentMetrics

\* a changed scope with impact on one of the three only, and a required
\* user interaction, came back as it was
C35_Witness ==
    /\ lastOp = "convertBack"
    /\ currentMetrics[kS] = vC
    /\ currentMetrics[kC] = vN /\ currentMetrics[kI] = vL /\ currentMetrics[kA] = vN
    /\ currentMetrics[kUI] = vR
    /\ convertedMetrics = currentMetrics

\* outside the claim's condition the scope does not come back
C35_WitnessLost ==
    /\ lastOp = "convertBack"
    /\ currentMetrics[kS] = vC
    /\ convertedMetrics[kS] = vU

\* C36: a run that ends with no fact exits with status 1 and leaves
\* data/facts.json as it was; the file is only ever written with facts in it.
C36_EmptyRunWritesNothing ==
    /\ (pc = "exit" /\ Len(facts) = 0)
            => /\ exitCode = 1
               /\ outputFile = [written |-> FALSE, facts |-> <<>>]
    /\ outputFile.written => Len(outputFile.facts) > 0

\* every attempt of a run was rejected or failed without a fatal error
C36_Witness ==
    /\ pc = "exit"
    /\ Len(facts) = 0
    /\ attempts > 1
    /\ exitCode = 1
    /\ ~outputFile.written

\* the first call met a model-not-found error
C36_WitnessFatal ==
    /\ pc = "exit"
    /\ Len(facts) = 0
    /\ attempts = 1
    /\ callLog # <<>>
    /\ callLog[Len(callLog)].outcome = "not_found"
    /\ exitCode = 1
    /\ ~outputFile.written

\* C37: main starts no generateFactEntry once 5 failures have followed one
\* another, the count never passes 5, and every accepted fact resets it to 0.
C37_StopsAfterFiveFailures ==
    /\ [](/\ consecutiveFailures <= 5
          /\ consecutiveFailures = 5 => pc = "exit")
    /\ [][/\ consecutiveFailures >= 5 => attempts' = attempts
          /\ Len(facts') > Len(facts) => consecutiveFailures' = 0
          /\ attempts' > attempts => consecutiveFailures' < 5]_vars

\* the fifth rejection in a row ended a run that had attempts left
C37_Witness ==
    /\ pc = "exit"
    /\ consecutiveFailures = 5
    /\ attempts < 2 * FACT_COUNT
    /\ Len(facts) < FACT_COUNT
    /\ callLog # <<>>
    /\ callLog[Len(callLog)].outcome # "not_found"

\* a fact accepted after failures: the count is back at 0 and the run goes on
C37_WitnessReset ==
    /\ pc = "generateFact"
    /\ Len(facts) = 1
    /\ attempts = 4
    /\ consecutiveFailures = 0

\* the clock has moved less than 24 hours since the first page opened, so a
\* fact saved by a generation of this run is younger than 24 hours
savedWithinDay == now - ClockStart < 24 * 60 * 60 * 1000

\* C38: a page loaded less than 24 hours after a successful generation
\* saved its fact shows that fact again.
C38_ReloadShowsSavedFact ==
    [][\A t \in Tabs :
        (/\ OpenPage
         /\ <<state[t], elements[t]>>' # <<state[t], elements[t]>>
         /\ localStorage.lastFact.present
         /\ savedWithinDay)
            => elements'[t].results]_vars
====
